---- MODULE Spec2Model ----
(***************************************************************************)
(* Model of the Packet terminal broadcaster front end:                     *)
(*   - TerminalProvider  (session / group registry, broadcastKeystroke)    *)
(*   - BroadcastInput    (target mode, ':' command language, key handling) *)
(*   - TerminalPanel     (backend open of a session, global panel maps)    *)
(* Strings are sequences of one-character strings so that trimming, case   *)
(* folding, splitting and glob matching are computed as the code does.     *)
(* Ids (uuidv4) are fresh naturals; 0 stands for null.                     *)
(***************************************************************************)
EXTENDS Integers, Sequences, FiniteSets, TLC

\* ---------------------------------------------------------------- bounds
MaxSess == 2
MaxGroups == 2

Null == 0

\* ------------------------------------------------------- string helpers
UpperChars == << "A","B","C","D","E","F","G","H","I","J","K","L","M",
                 "N","O","P","Q","R","S","T","U","V","W","X","Y","Z" >>

LowerChars == << "a","b","c","d","e","f","g","h","i","j","k","l","m",
                 "n","o","p","q","r","s","t","u","v","w","x","y","z" >>

\* String.prototype.toLowerCase on one character
LowerChar(c) ==
    IF \E i \in 1..26 : UpperChars[i] = c
    THEN LowerChars[CHOOSE i \in 1..26 : UpperChars[i] = c]
    ELSE c

toLowerCase(s) == [i \in 1..Len(s) |-> LowerChar(s[i])]

IsSpace(c) == c = " "

RECURSIVE TrimLeft(_)
TrimLeft(s) == IF s # << >> /\ IsSpace(Head(s)) THEN TrimLeft(Tail(s)) ELSE s

RECURSIVE TrimRight(_)
TrimRight(s) ==
    IF s # << >> /\ IsSpace(s[Len(s)])
    THEN TrimRight(SubSeq(s, 1, Len(s) - 1))
    ELSE s

\* String.prototype.trim
trim(s) == TrimRight(TrimLeft(s))

\* String.prototype.startsWith
startsWith(s, p) == Len(p) <= Len(s) /\ SubSeq(s, 1, Len(p)) = p

\* String.prototype.includes
includes(s, p) ==
    \E i \in 0..(Len(s) - Len(p)) : SubSeq(s, i + 1, i + Len(p)) = p

\* line.slice(line.indexOf(" ") + 1): the text after the first blank
\* (indexOf = -1 gives slice(0), the whole line)
AfterFirstSpace(s) ==
    IF \E i \in 1..Len(s) : s[i] = " "
    THEN LET i == CHOOSE j \in 1..Len(s) :
                     s[j] = " " /\ \A k \in 1..(j - 1) : s[k] # " "
         IN SubSeq(s, i + 1, Len(s))
    ELSE s

\* s.split(/\s+/): cut at every maximal run of blanks
RECURSIVE SplitWs(_, _, _, _)
SplitWs(s, cur, acc, inRun) ==
    IF s = << >> THEN Append(acc, cur)
    ELSE IF IsSpace(Head(s))
         THEN IF inRun THEN SplitWs(Tail(s), cur, acc, TRUE)
              ELSE SplitWs(Tail(s), << >>, Append(acc, cur), TRUE)
         ELSE SplitWs(Tail(s), Append(cur, Head(s)), acc, FALSE)

split(s) == SplitWs(s, << >>, << >>, FALSE)

\* args.slice(1).join(" ")
RECURSIVE JoinFrom(_, _)
JoinFrom(args, i) ==
    IF i > Len(args) THEN << >>
    ELSE IF i = Len(args) THEN args[i]
    ELSE args[i] \o << " " >> \o JoinFrom(args, i + 1)

\* prev.slice(0, -1)
DropLast(s) == IF s = << >> THEN s ELSE SubSeq(s, 1, Len(s) - 1)

\* prev.replace(/\S+\s*$/, ""): drop the last word and the blanks after it
RECURSIVE DropLastRun(_)
DropLastRun(s) ==
    IF s # << >> /\ ~IsSpace(s[Len(s)]) THEN DropLastRun(DropLast(s)) ELSE s

DeleteWord(s) ==
    LET t == TrimRight(s) IN IF t = << >> THEN s ELSE DropLastRun(t)

\* --------------------------------------------- wildcard pattern matching
RegexSpecial == { ".", "+", "^", "$", "{", "}", "(", ")", "|", "[", "]", "\\" }

\* a conversion that leaves '.' unescaped
GlobAtom_Unescaped(c) ==
    IF c = "*" THEN [k |-> "dotstar", c |-> c]
    ELSE IF c \in {"?", "."} THEN [k |-> "dot", c |-> c]
    ELSE [k |-> "lit", c |-> c]

\* terminalPattern.replace(escape).replace(*, .*).replace(?, .) as a list of
\* regex atoms: an escaped or plain character is a literal
GlobAtom(c) ==
    IF c \in RegexSpecial THEN [k |-> "lit", c |-> c]
    ELSE IF c = "*" THEN [k |-> "dotstar", c |-> c]
    ELSE IF c = "?" THEN [k |-> "dot", c |-> c]
    ELSE [k |-> "lit", c |-> c]

regexPattern(p) == [i \in 1..Len(p) |-> GlobAtom(p[i])]

\* the characters that '.' does not match in a regular expression without
\* the 's' flag; session names are single-line strings and hold none of them
LineTerminators == { "\n", "\r" }

\* new RegExp(`^${regexPattern}$`, 'i').test(name)
RECURSIVE RegexTest(_, _)
RegexTest(re, s) ==
    IF re = << >> THEN s = << >>
    ELSE LET a == Head(re) IN
         IF a.k = "dotstar"
         THEN \/ RegexTest(Tail(re), s)
              \/ s # << >> /\ Head(s) \notin LineTerminators
                           /\ RegexTest(re, Tail(s))
         ELSE IF a.k = "dot"
         THEN s # << >> /\ Head(s) \notin LineTerminators
                        /\ RegexTest(Tail(re), Tail(s))
         ELSE s # << >> /\ LowerChar(Head(s)) = LowerChar(a.c)
                        /\ RegexTest(Tail(re), Tail(s))

\* `Terminal ${n}`: decimal rendering of a session count
DigitChars == << "0","1","2","3","4","5","6","7","8","9" >>

RECURSIVE DecStr(_)
DecStr(n) ==
    IF n < 10 THEN << DigitChars[n + 1] >>
    ELSE DecStr(n \div 10) \o << DigitChars[(n % 10) + 1] >>

TerminalName(n) == << "T","e","r","m","i","n","a","l"," " >> \o DecStr(n)

\* ------------------------------------------------------ input alphabets
\* ------------------------------------------------- ciscoHighlight.ts
\* the character 0x1B, kept as one element of a text
Esc == "ESC"

ANSI == [ reset |-> << Esc, "[", "0", "m" >>,
          ip |-> << Esc, "[", "3", "8", ";", "5", ";", "2", "2", "1", "m" >>,
          command |-> << Esc, "[", "3", "8", ";", "5", ";", "7", "5", "m" >>,
          protocol |-> << Esc, "[", "3", "8", ";", "5", ";", "1", "7", "7", "m" >>,
          statusUp |-> << Esc, "[", "3", "8", ";", "5", ";", "4", "6", "m" >>,
          statusDown |-> << Esc, "[", "3", "8", ";", "5", ";", "1", "9", "6", "m" >> ]

\* the members of the keyword sets that occur in the texts examined, in the
\* order of the source, which is the order of the alternatives of the pattern
COMMANDS == << << "s", "h", "o", "w" >>, << "n", "o" >>, << "e", "n", "a", "b", "l", "e" >>, << "d", "i", "s", "a", "b", "l", "e" >> >>
PROTOCOLS == << << "s", "s", "h" >> >>
STATUS_UP == << << "u", "p" >>, << "e", "n", "a", "b", "l", "e", "d" >> >>
STATUS_DOWN == << << "d", "o", "w", "n" >>, << "d", "i", "s", "a", "b", "l", "e", "d" >>, << "e", "r", "r", "-", "d", "i", "s", "a", "b", "l", "e", "d" >> >>

\* \w of a regular expression
IsWordChar(c) ==
    \/ \E i \in 1..26 : c = UpperChars[i] \/ c = LowerChars[i]
    \/ \E i \in 1..10 : c = DigitChars[i]
    \/ c = "_"

\* \b before the character at position p (positions from 1)
WordBoundary(text, p) ==
    (p > 1 /\ IsWordChar(text[p - 1])) # (p <= Len(text) /\ IsWordChar(text[p]))

\* the word w, in lower case, is at position p, letters compared without case
WordAt(text, p, w) ==
    /\ p + Len(w) - 1 <= Len(text)
    /\ \A i \in 1..Len(w) : LowerChar(text[p + i - 1]) = w[i]

\* \b(w1|w2|...)\b tried at position p: the first alternative that matches
\* with a word boundary after it, 0 when none does
MatchAt(text, p, words) ==
    LET ok(k) == WordAt(text, p, words[k])
                   /\ WordBoundary(text, p + Len(words[k]))
    IN IF WordBoundary(text, p) /\ \E k \in DOMAIN words : ok(k)
       THEN CHOOSE k \in DOMAIN words : ok(k) /\ \A j \in 1..(k - 1) : ~ok(j)
       ELSE 0

\* isInsideAnsiSequence(text, position), position = p - 1 counted from 0
isInsideAnsiSequence(text, p) ==
    LET near == { i \in 1..(p - 1) : i >= p - 20 /\ text[i] = Esc } IN
    IF near = {} THEN FALSE
    ELSE LET escPos == CHOOSE i \in near : \A j \in near : j <= i
         IN \A i \in escPos..(p - 1) : text[i] # "m"

\* result.replace(pattern, callback) from position p on: every match is
\* handed to the callback with its offset in the text before the replacement
RECURSIVE ReplaceFrom(_, _, _, _)
ReplaceFrom(text, p, words, colorCode) ==
    IF p > Len(text) THEN << >>
    ELSE LET k == MatchAt(text, p, words) IN
         IF k = 0
         THEN << text[p] >> \o ReplaceFrom(text, p + 1, words, colorCode)
         ELSE LET match == SubSeq(text, p, p + Len(words[k]) - 1) IN
              (IF isInsideAnsiSequence(text, p) THEN match
               ELSE colorCode \o match \o ANSI.reset)
              \o ReplaceFrom(text, p + Len(words[k]), words, colorCode)

\* safeReplace(pattern, colorCode) for a keyword pattern
safeReplace(text, words, colorCode) == ReplaceFrom(text, 1, words, colorCode)

IsDigit(c) == \E i \in 1..10 : c = DigitChars[i]

\* the number of digits that follow one another from position q on
RECURSIVE DigitRun(_, _)
DigitRun(text, q) ==
    IF q <= Len(text) /\ IsDigit(text[q]) THEN 1 + DigitRun(text, q + 1) ELSE 0

\* \d{1,3}\. at position q: the position after the dot, 0 when it fails
OctetDot(text, q) ==
    LET n == DigitRun(text, q) IN
    IF q # 0 /\ n \in 1..3 /\ q + n <= Len(text) /\ text[q + n] = "."
    THEN q + n + 1 ELSE 0

\* IPV4_PATTERN tried at position p: the position after the match, 0 when
\* there is none; the greedy /prefix is given up when no \b follows it
IPv4End(text, p) ==
    LET q4 == OctetDot(text, OctetDot(text, OctetDot(text, p)))
        n4 == DigitRun(text, q4)
        e4 == q4 + n4
        m == IF e4 <= Len(text) /\ text[e4] = "/" THEN DigitRun(text, e4 + 1)
             ELSE 0
    IN IF ~WordBoundary(text, p) \/ q4 = 0 \/ n4 \notin 1..3 THEN 0
       ELSE IF m >= 2 /\ WordBoundary(text, e4 + 3) THEN e4 + 3
       ELSE IF m >= 1 /\ WordBoundary(text, e4 + 2) THEN e4 + 2
       ELSE IF WordBoundary(text, e4) THEN e4
       ELSE 0

\* a validator that lets 256 pass
OctetOk_To256(n) == n >= 0 /\ n <= 256

\* n >= 0 && n <= 255
OctetOk(n) == n >= 0 /\ n <= 255

\* parseInt(p, 10) of a run of digits
RECURSIVE parseInt(_)
parseInt(d) ==
    IF d = << >> THEN 0
    ELSE 10 * parseInt(DropLast(d))
           + (CHOOSE i \in 0..9 : DigitChars[i + 1] = d[Len(d)])

\* s.split(sep) for a one-character separator
RECURSIVE SplitAt(_, _, _)
SplitAt(s, sep, cur) ==
    IF s = << >> THEN << cur >>
    ELSE IF Head(s) = sep THEN << cur >> \o SplitAt(Tail(s), sep, << >>)
    ELSE SplitAt(Tail(s), sep, Append(cur, Head(s)))

\* the validator of the IPv4 pass: every octet of the address part in 0..255
ValidIPv4(match) ==
    LET parts == SplitAt(SplitAt(match, "/", << >>)[1], ".", << >>)
    IN \A i \in DOMAIN parts : OctetOk(parseInt(parts[i]))

\* safeReplace(IPV4_PATTERN, ANSI.ip, validator) from position p on
RECURSIVE ReplaceIPv4From(_, _)
ReplaceIPv4From(text, p) ==
    IF p > Len(text) THEN << >>
    ELSE LET e == IPv4End(text, p) IN
         IF e = 0 THEN << text[p] >> \o ReplaceIPv4From(text, p + 1)
         ELSE LET match == SubSeq(text, p, e - 1) IN
              (IF isInsideAnsiSequence(text, p) \/ ~ValidIPv4(match) THEN match
               ELSE ANSI.ip \o match \o ANSI.reset)
              \o ReplaceIPv4From(text, e)

\* highlightCiscoOutput(text). The IPv6, MAC, interface and prompt patterns
\* need one of ':', '#', '>', four hexadecimal digits in a row or a digit that
\* follows a letter; the texts examined hold none, so the IPv4 pass and the
\* keyword passes are the ones written out.
highlightCiscoOutput(text) ==
    IF Len(text) < 2 THEN text
    ELSE LET r0 == ReplaceIPv4From(text, 1)
             r1 == safeReplace(r0, STATUS_UP, ANSI.statusUp)
             r2 == safeReplace(r1, STATUS_DOWN, ANSI.statusDown)
             r3 == safeReplace(r2, COMMANDS, ANSI.command)
         IN safeReplace(r3, PROTOCOLS, ANSI.protocol)

\* bounds of the patterns and names the ':m' matching is applied to
MaxPat == 3
MaxName == 3

\* bound of the number of pieces a terminal output text is made of
MaxPieces == 4

NameR1 == << "R","-","1" >>
NameSW1 == << "S","W","-","1" >>
SessNames == { NameR1, NameSW1 }

NameRouters == << "R","o","u","t","e","r","s" >>
NameCoreRouters == << "C","o","r","e","-","R","o","u","t","e","r","s" >>
GroupNames == { NameRouters, NameCoreRouters }

LineL == << ":","l" >>
LineA == << ":","a" >>
LineGRouters == << ":","g"," ","R","o","u","t","e","r","s" >>
LineGLower == << ":","g"," ","r","o","u","t","e","r","s" >>
LineGroupRouters == << ":","g","r","o","u","p"," ","R","o","u","t","e","r","s" >>
LineLocal == << ":","l","o","c","a","l" >>
LineSwitchCore == << ":","s","w","i","t","c","h"," ","c","o","r","e" >>
LineSNope == << ":","s"," ","n","o","p","e" >>
LineGNope == << ":","g"," ","N","o","p","e" >>
LineMRouters == << ":","m"," ","R","-","*"," ","R","o","u","t","e","r","s" >>
LineMUngroup == << ":","m"," ","R","-","*" >>
LineSAll == << ":","s"," ","a","l","l" >>
LineSRouters == << ":","s"," ","R","o","u","t","e","r","s" >>
LineHelp == << ":","?" >>
LineUnknown == << ":","z" >>
LinePlain == << "s","h" >>

ConnectionTypes == { "local", "telnet", "ssh" }

\* ------------------------------------------------------------- state
VARIABLES
    sessions,             \* TerminalProvider: useState<TerminalSession[]>
    sessionsRef,          \* TerminalProvider: sessionsRef.current
    groups,               \* TerminalProvider: useState<TabGroup[]>
    activeSessionId,      \* TerminalProvider: id of the active session or Null
    activeGroupId,        \* TerminalProvider: id of the viewed group or Null
    cliChecked,           \* startup get_cli_connection has been answered
    ncListeners,          \* "new-connection" listeners known to the backend
    ipcLag,               \* listen() may resolve after later events (else at once)
    nextSessionId,        \* uuidv4 for sessions: next unused id
    nextGroupId,          \* uuidv4 for groups: next unused id
    broadcastMode,        \* BroadcastInput: "all" | "group" | "custom"
    customGroupId,        \* BroadcastInput: group chosen by ':g' or Null
    currentLine,          \* BroadcastInput: text of the input line
    initializedSessions,  \* TerminalPanel: module-level Set of session ids
    opening,              \* session ids whose backend open call is in flight
    panelLog,             \* per session: backend open calls made; panels mounted again
    closeCalls,           \* kill_pty / disconnect_telnet calls issued, per session
    opened,               \* session ids whose backend open call has resolved
    lost,                 \* session ids whose backend rejects the calls made to it
    applied,              \* the pure function under study: arguments and result
    bcasts,               \* broadcast calls made by the last step, with their writes
    last,                 \* the operation the last step performed and the ids it touched
    script                \* progress of a ':m' command followed by a ':g' command

vars == << sessions, sessionsRef, groups, activeSessionId, activeGroupId,
           cliChecked, ncListeners, ipcLag, nextSessionId, nextGroupId,
           broadcastMode, customGroupId, currentLine,
           initializedSessions, opening, closeCalls, opened, lost, applied, bcasts, last,
           script, panelLog >>

SessionIds == 1..MaxSess
GroupIds == 1..MaxGroups

\* ------------------------------------------------- sequence utilities
Ids(S) == { S[i].id : i \in DOMAIN S }

\* Array.prototype.findIndex (1-based; 0 when absent)
FindIndex(S, id) ==
    IF \E i \in DOMAIN S : S[i].id = id
    THEN CHOOSE i \in DOMAIN S : S[i].id = id /\ \A j \in 1..(i - 1) : S[j].id # id
    ELSE 0

\* prev.filter((s) => s.id !== id)
RECURSIVE FilterOut(_, _)
FilterOut(S, id) ==
    IF S = << >> THEN << >>
    ELSE IF Head(S).id = id THEN FilterOut(Tail(S), id)
    ELSE << Head(S) >> \o FilterOut(Tail(S), id)

\* sessions.filter(s => s.groupId === g)
RECURSIVE InGroup(_, _)
InGroup(S, g) ==
    IF S = << >> THEN << >>
    ELSE IF Head(S).groupId = g THEN << Head(S) >> \o InGroup(Tail(S), g)
    ELSE InGroup(Tail(S), g)

\* ids of the sessions that are in some group
Grouped(S) == { S[i].id : i \in { j \in DOMAIN S : S[j].groupId # Null } }

Min(a, b) == IF a <= b THEN a ELSE b

\* TerminalGrid: the sessions of the viewed group (all when none is viewed)
filteredSessions(S, ag) == IF ag = Null THEN S ELSE InGroup(S, ag)

NewSession(id, name, kind, g) ==
    [ id |-> id, name |-> name, connectionType |-> kind,
      broadcastEnabled |-> TRUE, terminal |-> FALSE,
      sessionId |-> Null, groupId |-> g ]

\* ------------------------------------------- render, effects, mounting
\* "new-connection" effect: its cleanup unlistens a listener whose listen()
\* has resolved and leaves the others to be unlistened when it resolves; its
\* body calls listen() with a handler that captures the viewed group.
Relisten(L, ag) ==
    { [l EXCEPT !.cleaned = TRUE] : l \in { x \in L : x.st # "resolved" } }
        \cup { [grp |-> ag, st |-> IF ipcLag THEN "registered" ELSE "resolved",
                cleaned |-> FALSE] }

\* the sessions whose panel a render of list S under view ag mounts
Mounted(S, ag) == IF filteredSessions(S, ag) # << >> THEN Ids(S) ELSE {}

\* the log after a render: a backend open call for every session in fresh,
\* and the registered sessions whose panel this render mounts anew
Logged(S, ag, fresh) ==
    [opens |-> [i \in SessionIds |->
                  IF i \in fresh THEN panelLog.opens[i] + 1
                  ELSE panelLog.opens[i]],
     remounted |-> panelLog.remounted
                     \cup ((Mounted(S, ag) \ Mounted(sessions, activeGroupId))
                             \cap initializedSessions)]

\* a render in which every panel it mounts starts the backend open
CommitWith_OpenOnMount(S, ag, inFlight) ==
    LET shown == filteredSessions(S, ag) # << >>
        fresh == Mounted(S, ag) \ Mounted(sessions, activeGroupId)
        S2 == [i \in DOMAIN S |->
                 IF S[i].id \in fresh THEN [S[i] EXCEPT !.terminal = TRUE]
                 ELSE S[i]]
    IN /\ sessions' = S2
       /\ sessionsRef' = S2
       /\ activeGroupId' = ag
       /\ initializedSessions' = initializedSessions \cup fresh
       /\ opening' = inFlight \cup fresh
       /\ panelLog' = Logged(S, ag, fresh)
       /\ ncListeners' = IF ag # activeGroupId THEN Relisten(ncListeners, ag)
                         ELSE ncListeners
       /\ UNCHANGED << ipcLag, applied >>

\* a render whose sessionsRef still holds the list of the render before it
CommitWith_StaleRef(S, ag, inFlight) ==
    LET shown == filteredSessions(S, ag) # << >>
        fresh == IF shown THEN Ids(S) \ initializedSessions ELSE {}
        S2 == [i \in DOMAIN S |->
                 IF S[i].id \in fresh THEN [S[i] EXCEPT !.terminal = TRUE]
                 ELSE S[i]]
    IN /\ sessions' = S2
       /\ sessionsRef' = sessions
       /\ activeGroupId' = ag
       /\ initializedSessions' = initializedSessions \cup fresh
       /\ opening' = inFlight \cup fresh
       /\ panelLog' = Logged(S, ag, fresh)
       /\ ncListeners' = IF ag # activeGroupId THEN Relisten(ncListeners, ag)
                         ELSE ncListeners
       /\ UNCHANGED << ipcLag, applied >>

\* The render that follows a state update: TerminalGrid mounts a TerminalPanel
\* for every session unless the viewed group is empty; a panel seen for the
\* first time registers the session, stores its Terminal and starts the
\* backend open; sessionsRef follows sessions.
CommitWith(S, ag, inFlight) ==
    LET shown == filteredSessions(S, ag) # << >>
        fresh == IF shown THEN Ids(S) \ initializedSessions ELSE {}
        S2 == [i \in DOMAIN S |->
                 IF S[i].id \in fresh THEN [S[i] EXCEPT !.terminal = TRUE]
                 ELSE S[i]]
    IN /\ sessions' = S2
       /\ sessionsRef' = S2
       /\ activeGroupId' = ag
       /\ initializedSessions' = initializedSessions \cup fresh
       /\ opening' = inFlight \cup fresh
       /\ panelLog' = Logged(S, ag, fresh)
       /\ ncListeners' = IF ag # activeGroupId THEN Relisten(ncListeners, ag)
                         ELSE ncListeners
       /\ UNCHANGED << ipcLag, applied >>

NoScript == [stage |-> 0, matched |-> {}, grp |-> Null, others |-> FALSE]

Commit(S, ag) == CommitWith(S, ag, opening)

Did(op, ids) == [op |-> op, ids |-> ids]

\* a key event handled by handleKeyDown
KeyDid(op, e) == [op |-> op, ids |-> {}, e |-> e]

Quiet == last' = Did("none", {})

InputIdle == /\ UNCHANGED << broadcastMode, customGroupId, currentLine >>
             /\ bcasts' = << >>
             /\ script' = NoScript

\* a step outside BroadcastInput that changes neither groups nor membership
InputKept == /\ UNCHANGED << broadcastMode, customGroupId, currentLine, script >>
             /\ bcasts' = << >>

PanelIdle == UNCHANGED << closeCalls, opened, lost >>

\* --------------------------------------------------- TerminalProvider
NoCall == [fn |-> "none"]

InitState(lag) ==
    /\ sessions = << >>
    /\ sessionsRef = << >>
    /\ groups = << >>
    /\ activeSessionId = Null
    /\ activeGroupId = Null
    /\ cliChecked = FALSE
    /\ ipcLag = lag
    /\ ncListeners = { [grp |-> Null, st |-> IF lag THEN "registered" ELSE "resolved",
                         cleaned |-> FALSE] }
    /\ nextSessionId = 1
    /\ nextGroupId = 1
    /\ broadcastMode = "all"
    /\ customGroupId = Null
    /\ currentLine = << >>
    /\ initializedSessions = {}
    /\ opening = {}
    /\ closeCalls = [i \in SessionIds |-> 0]
    /\ panelLog = [opens |-> [i \in SessionIds |-> 0], remounted |-> {}]
    /\ opened = {}
    /\ lost = {}
    /\ bcasts = << >>
    /\ last = Did("none", {})
    /\ script = NoScript

InitWith(lag) == InitState(lag) /\ applied = NoCall

\* listen() answered by the backend before any later event
Init == InitWith(FALSE)

\* listen() answered at any later time
InitLag == InitWith(TRUE)

\* setSessions((prev) => [...prev, newSession]); setActiveSessionId(id)
AppendSession(name, kind, g) ==
    /\ nextSessionId <= MaxSess
    /\ Commit(Append(sessions, NewSession(nextSessionId, name, kind, g)),
              activeGroupId)
    /\ activeSessionId' = nextSessionId
    /\ nextSessionId' = nextSessionId + 1
    /\ UNCHANGED << groups, cliChecked, nextGroupId >>
    /\ PanelIdle
    /\ InputIdle
    /\ Quiet

\* addSession(groupId = null): groupId ?? activeGroupId
addSession(groupId) ==
    AppendSession(TerminalName(Len(sessionsRef) + 1), "local",
                  IF groupId # Null THEN groupId ELSE activeGroupId)

\* addTelnetSession(host, port, name)
addTelnetSession(name) == AppendSession(name, "telnet", activeGroupId)

\* addSshSession(connection, name): declared in TerminalState and called by
\* ConnectDialog; follows addTelnetSession with connectionType "ssh"
addSshSession(name) == AppendSession(name, "ssh", activeGroupId)

\* startup effect: get_cli_connection answers; a connection replaces the list
checkCliConnection(hasConn, name) ==
    /\ ~cliChecked
    /\ cliChecked' = TRUE
    /\ IF hasConn
       THEN /\ nextSessionId <= MaxSess
            /\ Commit(<< NewSession(nextSessionId, name, "telnet", Null) >>,
                      activeGroupId)
            /\ activeSessionId' = nextSessionId
            /\ nextSessionId' = nextSessionId + 1
       ELSE /\ Commit(sessions, activeGroupId)
            /\ UNCHANGED << activeSessionId, nextSessionId >>
    /\ UNCHANGED << groups, nextGroupId >>
    /\ PanelIdle
    /\ InputIdle
    /\ Quiet

\* the listen() promise resolves; a cleaned-up effect unlistens at once
ListenResolved(l) ==
    /\ l \in ncListeners /\ l.st = "registered"
    /\ ncListeners' = IF l.cleaned THEN ncListeners \ {l}
                      ELSE (ncListeners \ {l}) \cup { [l EXCEPT !.st = "resolved"] }
    /\ UNCHANGED << ipcLag, applied, sessions, sessionsRef, groups, activeSessionId,
                    activeGroupId, cliChecked, nextSessionId, nextGroupId,
                    initializedSessions, opening, panelLog >>
    /\ PanelIdle
    /\ InputIdle
    /\ Quiet

\* a "new-connection" event reaches listener l: groupId is the group the
\* listener captured when its effect ran
newConnection(l, name) ==
    /\ l \in ncListeners
    /\ AppendSession(name, "telnet", l.grp)

\* removeSession that closes the backend of an id without looking it up
removeSession_CloseAlways(id) ==
    LET idx == FindIndex(sessions, id)
        remaining == FilterOut(sessions, id)
    IN /\ closeCalls' = [closeCalls EXCEPT ![id] = @ + 1]
       /\ activeSessionId' =
            IF id = activeSessionId /\ Len(remaining) > 0
            THEN IF idx = 0 THEN Null
                 ELSE remaining[Min(idx, Len(remaining))].id
            ELSE IF Len(remaining) = 0 THEN Null
            ELSE activeSessionId
       /\ Commit(remaining, activeGroupId)
       /\ UNCHANGED << groups, cliChecked, nextSessionId, nextGroupId, opened,
                       lost >>
       /\ InputIdle
       /\ last' = Did(IF idx # 0 THEN "removeSession" ELSE "removeAbsent", {id})

\* removeSession(id)
removeSession(id) ==
    LET idx == FindIndex(sessions, id)
        closes == idx # 0 /\ sessions[idx].sessionId # Null
                  /\ sessions[idx].connectionType \in { "local", "telnet" }
        remaining == FilterOut(sessions, id)
    IN /\ closeCalls' = IF closes THEN [closeCalls EXCEPT ![id] = @ + 1]
                        ELSE closeCalls
       /\ activeSessionId' =
            IF id = activeSessionId /\ Len(remaining) > 0
            THEN IF idx = 0 THEN Null
                 ELSE remaining[Min(idx, Len(remaining))].id
            ELSE IF Len(remaining) = 0 THEN Null
            ELSE activeSessionId
       /\ Commit(remaining, activeGroupId)
       /\ UNCHANGED << groups, cliChecked, nextSessionId, nextGroupId, opened,
                       lost >>
       /\ InputIdle
       /\ last' = Did(IF idx # 0 THEN "removeSession" ELSE "removeAbsent", {id})

\* toggleBroadcast(id)
toggleBroadcast(id) ==
    /\ Commit([i \in DOMAIN sessions |->
                 IF sessions[i].id = id
                 THEN [sessions[i] EXCEPT !.broadcastEnabled = ~@]
                 ELSE sessions[i]], activeGroupId)
    /\ UNCHANGED << groups, activeSessionId, cliChecked, nextSessionId,
                    nextGroupId >>
    /\ PanelIdle
    /\ InputKept
    /\ Quiet

\* updateSessionName(id, name)
updateSessionName(id, name) ==
    /\ Commit([i \in DOMAIN sessions |->
                 IF sessions[i].id = id THEN [sessions[i] EXCEPT !.name = name]
                 ELSE sessions[i]], activeGroupId)
    /\ UNCHANGED << groups, activeSessionId, cliChecked, nextSessionId,
                    nextGroupId >>
    /\ PanelIdle
    /\ InputIdle
    /\ Quiet

\* setActiveSession(id)
setActiveSession(id) ==
    /\ activeSessionId' = id
    /\ Commit(sessions, activeGroupId)
    /\ UNCHANGED << groups, cliChecked, nextSessionId, nextGroupId >>
    /\ PanelIdle
    /\ InputIdle
    /\ Quiet

\* setSessionId(id, sessionId): the backend id of a session is its own id
setSessionId(S, id) ==
    [i \in DOMAIN S |->
       IF S[i].id = id THEN [S[i] EXCEPT !.sessionId = id] ELSE S[i]]

\* spawn_pty / connect_telnet / connect_ssh resolves
OpenResolved(id) ==
    /\ id \in opening
    /\ CommitWith(setSessionId(sessions, id), activeGroupId, opening \ {id})
    /\ opened' = opened \cup {id}
    /\ UNCHANGED << groups, activeSessionId, cliChecked, nextSessionId,
                    nextGroupId, closeCalls, lost >>
    /\ InputKept
    /\ Quiet

\* spawn_pty / connect_telnet / connect_ssh rejects
OpenRejected(id) ==
    /\ id \in opening
    /\ opening' = opening \ {id}
    /\ UNCHANGED << sessions, sessionsRef, groups, activeSessionId,
                    activeGroupId, cliChecked, ncListeners, ipcLag, applied,
                    nextSessionId,
                    nextGroupId, initializedSessions, panelLog >>
    /\ PanelIdle
    /\ InputIdle
    /\ Quiet

\* the backend of session id goes away (remote end closed, process exited):
\* from now on invoke() for it returns a promise that rejects
backendLost(id) ==
    /\ id \in opened \ lost
    /\ lost' = lost \cup {id}
    /\ Commit(sessions, activeGroupId)
    /\ UNCHANGED << groups, activeSessionId, cliChecked, nextSessionId,
                    nextGroupId, closeCalls, opened >>
    /\ InputKept
    /\ Quiet

\* term.onData: the user types in the terminal of session id; the handler
\* is registered after the backend open resolved and writes to that backend
termData(id) ==
    /\ \E i \in DOMAIN sessions : sessions[i].id = id /\ sessions[i].terminal
    /\ last' = Did("termData", IF id \in opened THEN {id} ELSE {})
    /\ Commit(sessions, activeGroupId)
    /\ UNCHANGED << groups, activeSessionId, cliChecked, nextSessionId,
                    nextGroupId >>
    /\ PanelIdle
    /\ InputKept

\* term.onResize: registered by initLocalSession and initSshSession after
\* the backend open resolved
termResize(id) ==
    /\ \E i \in DOMAIN sessions : sessions[i].id = id /\ sessions[i].terminal
    /\ last' = Did("termResize",
                   IF id \in opened
                      /\ \E i \in DOMAIN sessions :
                            /\ sessions[i].id = id
                            /\ sessions[i].connectionType \in { "local", "ssh" }
                   THEN {id} ELSE {})
    /\ Commit(sessions, activeGroupId)
    /\ UNCHANGED << groups, activeSessionId, cliChecked, nextSessionId,
                    nextGroupId >>
    /\ PanelIdle
    /\ InputKept

\* ------------------------------------------------------------ groups
\* addGroup(name)
addGroup(name) ==
    /\ nextGroupId <= MaxGroups
    /\ groups' = Append(groups, [id |-> nextGroupId, name |-> name])
    /\ nextGroupId' = nextGroupId + 1
    /\ Commit(sessions, nextGroupId)
    /\ UNCHANGED << activeSessionId, cliChecked, nextSessionId >>
    /\ PanelIdle
    /\ InputIdle
    /\ Quiet

\* ungrouping that forgets the s.groupId === id test
Ungroup_All(S, id) == [i \in DOMAIN S |-> [S[i] EXCEPT !.groupId = Null]]

\* sessions with groupId === id become ungrouped
Ungroup(S, id) ==
    [i \in DOMAIN S |->
       IF S[i].groupId = id THEN [S[i] EXCEPT !.groupId = Null] ELSE S[i]]

\* removeGroup(id)
removeGroup(id) ==
    /\ groups' = FilterOut(groups, id)
    /\ Commit(Ungroup(sessions, id),
              IF activeGroupId = id THEN Null ELSE activeGroupId)
    /\ UNCHANGED << activeSessionId, cliChecked, nextSessionId, nextGroupId >>
    /\ PanelIdle
    /\ InputIdle
    /\ last' = Did("removeGroup", Ids(InGroup(sessions, id)))

\* renameGroup(id, name)
renameGroup(id, name) ==
    /\ groups' = [i \in DOMAIN groups |->
                    IF groups[i].id = id THEN [groups[i] EXCEPT !.name = name]
                    ELSE groups[i]]
    /\ Commit(sessions, activeGroupId)
    /\ UNCHANGED << activeSessionId, cliChecked, nextSessionId, nextGroupId >>
    /\ PanelIdle
    /\ InputIdle
    /\ Quiet

\* setActiveGroup(id): the active session after the switch
ActiveAfterSwitch(id) ==
    IF id = Null THEN activeSessionId
    ELSE LET idx == FindIndex(sessionsRef, activeSessionId)
             inNew == InGroup(sessionsRef, id)
         IN IF idx # 0 /\ sessionsRef[idx].groupId = id THEN activeSessionId
            ELSE IF inNew # << >> THEN inNew[1].id
            ELSE activeSessionId

\* setActiveGroup(id)
setActiveGroup(id) ==
    /\ activeSessionId' = ActiveAfterSwitch(id)
    /\ Commit(sessions, id)
    /\ UNCHANGED << groups, cliChecked, nextSessionId, nextGroupId >>
    /\ PanelIdle
    /\ InputIdle
    /\ Quiet

\* moveToGroup(sessionId, groupId) applied to a session list
MoveIn(S, sessionId, groupId) ==
    [i \in DOMAIN S |->
       IF S[i].id = sessionId THEN [S[i] EXCEPT !.groupId = groupId] ELSE S[i]]

\* moveToGroup(sessionId, groupId)
moveToGroup(sessionId, groupId) ==
    /\ Commit(MoveIn(sessions, sessionId, groupId), activeGroupId)
    /\ UNCHANGED << groups, activeSessionId, cliChecked, nextSessionId,
                    nextGroupId >>
    /\ PanelIdle
    /\ InputIdle
    /\ Quiet

\* ------------------------------------------------------ BroadcastInput
\* sessions.filter(s => s.broadcastEnabled)
RECURSIVE Enabled(_)
Enabled(S) ==
    IF S = << >> THEN << >>
    ELSE IF Head(S).broadcastEnabled THEN << Head(S) >> \o Enabled(Tail(S))
    ELSE Enabled(Tail(S))

\* targetSessions (useMemo)
targetSessions ==
    LET filtered == Enabled(sessions) IN
    IF broadcastMode = "group"
    THEN IF activeGroupId # Null THEN InGroup(filtered, activeGroupId)
         ELSE filtered
    ELSE IF broadcastMode = "custom" /\ customGroupId # Null
         THEN InGroup(filtered, customGroupId)
         ELSE filtered

enabledCount == Len(targetSessions)

\* broadcastKeystroke(key, groupId): the backend writes it issues, in order;
\* hasGroup is groupId !== undefined
RECURSIVE KeystrokeWrites(_, _, _, _)
KeystrokeWrites(S, key, hasGroup, groupId) ==
    IF S = << >> THEN << >>
    ELSE LET session == Head(S)
             rest == KeystrokeWrites(Tail(S), key, hasGroup, groupId)
         IN IF ~session.broadcastEnabled \/ session.sessionId = Null THEN rest
            ELSE IF hasGroup /\ session.groupId # groupId THEN rest
            ELSE IF session.connectionType = "local"
                 THEN << [cmd |-> "write_to_pty", to |-> session.id,
                          data |-> key, ok |-> session.id \notin lost] >>
                      \o rest
            ELSE IF session.connectionType = "telnet"
                 THEN << [cmd |-> "write_telnet", to |-> session.id,
                          data |-> key, ok |-> session.id \notin lost] >>
                      \o rest
            ELSE rest

broadcastKeystroke(key, hasGroup, groupId) ==
    [key |-> key, writes |-> KeystrokeWrites(sessionsRef, key, hasGroup, groupId)]

\* broadcast that passes no group to broadcastKeystroke
broadcast_Unfiltered(key) == broadcastKeystroke(key, FALSE, Null)

\* broadcast(key): keystroke with the current mode filter applied
broadcast(key) ==
    IF broadcastMode = "group" /\ activeGroupId # Null
    THEN broadcastKeystroke(key, TRUE, activeGroupId)
    ELSE IF broadcastMode = "custom" /\ customGroupId # Null
    THEN broadcastKeystroke(key, TRUE, customGroupId)
    ELSE broadcastKeystroke(key, FALSE, Null)

\* a lookup that accepts a group whose name merely contains the name
GroupNamed_Includes(name) ==
    LET hit(i) == includes(toLowerCase(groups[i].name), toLowerCase(name)) IN
    IF \E i \in DOMAIN groups : hit(i)
    THEN groups[CHOOSE i \in DOMAIN groups :
                    hit(i) /\ \A j \in 1..(i - 1) : ~hit(j)].id
    ELSE Null

\* groups.find(g => g.name.toLowerCase() === name.toLowerCase()): id or Null
GroupNamed(name) ==
    LET hit(i) == toLowerCase(groups[i].name) = toLowerCase(name) IN
    IF \E i \in DOMAIN groups : hit(i)
    THEN groups[CHOOSE i \in DOMAIN groups :
                    hit(i) /\ \A j \in 1..(i - 1) : ~hit(j)].id
    ELSE Null

\* groups.find(g => g.name.toLowerCase().includes(name.toLowerCase()))
GroupContaining(name) ==
    LET hit(i) == includes(toLowerCase(groups[i].name), toLowerCase(name)) IN
    IF \E i \in DOMAIN groups : hit(i)
    THEN groups[CHOOSE i \in DOMAIN groups :
                    hit(i) /\ \A j \in 1..(i - 1) : ~hit(j)].id
    ELSE Null

\* sessions.filter(s => regex.test(s.name)), as the set of their ids
matchingSessions(terminalPattern) ==
    { sessions[i].id : i \in { j \in DOMAIN sessions :
          RegexTest(regexPattern(terminalPattern), sessions[j].name) } }

\* a move applied to every session instead of the matching ones
MoveAll_Everyone(S, ids, g) == [i \in DOMAIN S |-> [S[i] EXCEPT !.groupId = g]]

\* a move that skips sessions already in a group
MoveAll_OnlyUngrouped(S, ids, g) ==
    [i \in DOMAIN S |->
       IF S[i].id \in ids /\ S[i].groupId = Null THEN [S[i] EXCEPT !.groupId = g]
       ELSE S[i]]

\* matchingSessions.forEach(s => moveToGroup(s.id, g))
MoveAll(S, ids, g) ==
    [i \in DOMAIN S |->
       IF S[i].id \in ids THEN [S[i] EXCEPT !.groupId = g] ELSE S[i]]

NoCommand == [ok |-> FALSE, kind |-> "none", gid |-> Null, ids |-> {}]

Command(kind, gid, ids) == [ok |-> TRUE, kind |-> kind, gid |-> gid, ids |-> ids]

\* checkVimCommand(line): the command the line resolves to, ok = its result
checkVimCommand(line) ==
    LET trimmed == toLowerCase(trim(line))
        rest == trim(AfterFirstSpace(line))
        args == split(rest)
        groupName == JoinFrom(args, 2)
        matching == matchingSessions(args[1])
    IN IF (trimmed = << ":","l" >> \/ trimmed = << ":","l","o","c","a","l" >>)
          /\ activeGroupId # Null
       THEN Command("local", Null, {})
       ELSE IF trimmed = << ":","a" >> \/ trimmed = << ":","a","l","l" >>
       THEN Command("all", Null, {})
       ELSE IF (startsWith(trimmed, << ":","g"," " >>)
                \/ startsWith(trimmed, << ":","g","r","o","u","p"," " >>))
               /\ GroupNamed(rest) # Null
       THEN Command("group", GroupNamed(rest), {})
       ELSE IF (startsWith(trimmed, << ":","m"," " >>)
                \/ startsWith(trimmed, << ":","m","o","v","e"," " >>))
               /\ matching # {}
               /\ (groupName # << >> => GroupContaining(groupName) # Null)
       THEN Command("move",
                    IF groupName # << >> THEN GroupContaining(groupName)
                    ELSE Null, matching)
       ELSE IF (startsWith(trimmed, << ":","s"," " >>)
                \/ startsWith(trimmed, << ":","s","w","i","t","c","h"," " >>))
               /\ (toLowerCase(rest) = << "a","l","l" >>
                   \/ GroupContaining(rest) # Null)
       THEN Command("switch",
                    IF toLowerCase(rest) = << "a","l","l" >> THEN Null
                    ELSE GroupContaining(rest), {})
       ELSE IF trimmed = << ":","?" >> \/ trimmed = << ":","h","e","l","p" >>
       THEN Command("help", Null, {})
       ELSE NoCommand

Colon == << ":" >>

KeyEvent(key, ctrlKey) == [key |-> key, ctrlKey |-> ctrlKey]

Sent(data, line) == [sent |-> TRUE, data |-> data, line |-> line]

NotSent == [sent |-> FALSE, data |-> "", line |-> currentLine]

\* a key table in which Backspace sends BS
KeyBranch_BackspaceBS(e) ==
    LET k == LowerChar(e.key) IN
    IF e.key = "Enter" THEN Sent("0x0D", << >>)
    ELSE IF e.key = "Backspace" THEN Sent("0x08", DropLast(currentLine))
    ELSE IF e.key = "Tab" THEN Sent("0x09", currentLine)
    ELSE IF e.ctrlKey /\ k = "c" THEN Sent("0x03", << >>)
    ELSE IF e.ctrlKey /\ k = "d" THEN Sent("0x04", currentLine)
    ELSE IF e.ctrlKey /\ k = "z" THEN Sent("0x1A", currentLine)
    ELSE IF e.ctrlKey /\ k = "l" THEN Sent("0x0C", currentLine)
    ELSE IF e.ctrlKey /\ k = "u" THEN Sent("0x15", << >>)
    ELSE IF e.ctrlKey /\ k = "w" THEN Sent("0x17", DeleteWord(currentLine))
    ELSE IF e.ctrlKey /\ k = "a" THEN Sent("0x01", currentLine)
    ELSE IF e.ctrlKey /\ k = "e" THEN Sent("0x05", currentLine)
    ELSE IF e.key = "ArrowUp" THEN Sent("ESC[A", currentLine)
    ELSE IF e.key = "ArrowDown" THEN Sent("ESC[B", currentLine)
    ELSE IF e.key = "ArrowRight" THEN Sent("ESC[C", currentLine)
    ELSE IF e.key = "ArrowLeft" THEN Sent("ESC[D", currentLine)
    ELSE IF e.key = "Escape" THEN Sent("0x1B", currentLine)
    ELSE NotSent

\* handleKeyDown below the enabledCount test: the sequence handed to
\* broadcast and the new input line
KeyBranch(e) ==
    LET k == LowerChar(e.key) IN
    IF e.key = "Enter" THEN Sent("0x0D", << >>)
    ELSE IF e.key = "Backspace" THEN Sent("0x7F", DropLast(currentLine))
    ELSE IF e.key = "Tab" THEN Sent("0x09", currentLine)
    ELSE IF e.ctrlKey /\ k = "c" THEN Sent("0x03", << >>)
    ELSE IF e.ctrlKey /\ k = "d" THEN Sent("0x04", currentLine)
    ELSE IF e.ctrlKey /\ k = "z" THEN Sent("0x1A", currentLine)
    ELSE IF e.ctrlKey /\ k = "l" THEN Sent("0x0C", currentLine)
    ELSE IF e.ctrlKey /\ k = "u" THEN Sent("0x15", << >>)
    ELSE IF e.ctrlKey /\ k = "w" THEN Sent("0x17", DeleteWord(currentLine))
    ELSE IF e.ctrlKey /\ k = "a" THEN Sent("0x01", currentLine)
    ELSE IF e.ctrlKey /\ k = "e" THEN Sent("0x05", currentLine)
    ELSE IF e.key = "ArrowUp" THEN Sent("ESC[A", currentLine)
    ELSE IF e.key = "ArrowDown" THEN Sent("ESC[B", currentLine)
    ELSE IF e.key = "ArrowRight" THEN Sent("ESC[C", currentLine)
    ELSE IF e.key = "ArrowLeft" THEN Sent("ESC[D", currentLine)
    ELSE IF e.key = "Escape" THEN Sent("0x1B", currentLine)
    ELSE NotSent

\* bookkeeping of ':m R-* Routers' followed by ':g Routers'
ScriptAfter(line, cmd) ==
    IF line = LineMRouters /\ cmd.kind = "move"
    THEN [stage |-> 1, matched |-> cmd.ids, grp |-> cmd.gid,
          others |-> \E i \in DOMAIN sessions :
                        sessions[i].groupId = cmd.gid
                        /\ sessions[i].id \notin cmd.ids]
    ELSE IF line = LineGRouters /\ cmd.kind = "group" /\ script.stage = 1
    THEN [script EXCEPT !.stage = 2]
    ELSE NoScript

\* command updates in which ':l' selects the All mode
RunCommand_LocalToAll(cmd) ==
    /\ broadcastMode' = IF cmd.kind \in {"local", "all"} THEN "all"
                        ELSE IF cmd.kind = "group" THEN "custom"
                        ELSE broadcastMode
    /\ customGroupId' = IF cmd.kind = "all" THEN Null
                        ELSE IF cmd.kind = "group" THEN cmd.gid
                        ELSE customGroupId
    /\ activeSessionId' = IF cmd.kind = "switch" THEN ActiveAfterSwitch(cmd.gid)
                          ELSE activeSessionId
    /\ Commit(IF cmd.kind = "move" THEN MoveAll(sessions, cmd.ids, cmd.gid)
              ELSE sessions,
              IF cmd.kind = "switch" THEN cmd.gid ELSE activeGroupId)
    /\ currentLine' = << >>

\* command updates in which ':s' also makes the group the broadcast target
RunCommand_SwitchRetargets(cmd) ==
    /\ broadcastMode' = IF cmd.kind = "local" THEN "group"
                        ELSE IF cmd.kind = "all" THEN "all"
                        ELSE IF cmd.kind \in {"group", "switch"} THEN "custom"
                        ELSE broadcastMode
    /\ customGroupId' = IF cmd.kind = "all" THEN Null
                        ELSE IF cmd.kind \in {"group", "switch"} THEN cmd.gid
                        ELSE customGroupId
    /\ activeSessionId' = IF cmd.kind = "switch" THEN ActiveAfterSwitch(cmd.gid)
                          ELSE activeSessionId
    /\ Commit(IF cmd.kind = "move" THEN MoveAll(sessions, cmd.ids, cmd.gid)
              ELSE sessions,
              IF cmd.kind = "switch" THEN cmd.gid ELSE activeGroupId)
    /\ currentLine' = << >>

\* the state updates a matched command makes before checkVimCommand returns true
RunCommand(cmd) ==
    /\ broadcastMode' = IF cmd.kind = "local" THEN "group"
                        ELSE IF cmd.kind = "all" THEN "all"
                        ELSE IF cmd.kind = "group" THEN "custom"
                        ELSE broadcastMode
    /\ customGroupId' = IF cmd.kind = "all" THEN Null
                        ELSE IF cmd.kind = "group" THEN cmd.gid
                        ELSE customGroupId
    /\ activeSessionId' = IF cmd.kind = "switch" THEN ActiveAfterSwitch(cmd.gid)
                          ELSE activeSessionId
    /\ Commit(IF cmd.kind = "move" THEN MoveAll(sessions, cmd.ids, cmd.gid)
              ELSE sessions,
              IF cmd.kind = "switch" THEN cmd.gid ELSE activeGroupId)
    /\ currentLine' = << >>

\* handleKeyDown(e)
handleKeyDown(e) ==
    LET isCmd == startsWith(currentLine, Colon) IN
    \E cmd \in { IF e.key = "Enter" /\ isCmd THEN checkVimCommand(currentLine)
                  ELSE NoCommand },
       b \in { KeyBranch(e) } :
       /\ Len(sessions) > 0
       /\ IF cmd.ok
          THEN /\ RunCommand(cmd)
               /\ bcasts' = << >>
               /\ last' = IF cmd.kind = "move" /\ cmd.gid = Null
                          THEN Did("ungroup", cmd.ids \cap Grouped(sessions))
                          ELSE Did(cmd.kind, cmd.ids)
               /\ script' = ScriptAfter(currentLine, cmd)
          ELSE /\ IF enabledCount = 0 \/ ~b.sent
                  THEN /\ bcasts' = << >>
                       /\ UNCHANGED currentLine
                  ELSE /\ bcasts' = << broadcast(b.data) >>
                       /\ currentLine' = b.line
               /\ last' = KeyDid(IF ~isCmd THEN "key"
                                 ELSE IF e.key = "Enter" THEN "unmatched"
                                 ELSE "cmdkey", e)
               /\ Commit(sessions, activeGroupId)
               /\ UNCHANGED << broadcastMode, customGroupId, activeSessionId,
                               script >>
       /\ UNCHANGED << groups, cliChecked, nextSessionId, nextGroupId >>
       /\ PanelIdle

\* handleInput(e): the input element reports the new value of the line
handleInput(newValue) ==
    LET added == SubSeq(newValue, Len(currentLine) + 1, Len(newValue)) IN
    /\ Len(sessions) > 0
    /\ newValue # currentLine
    /\ currentLine' = newValue
    /\ bcasts' = IF startsWith(newValue, Colon) THEN << >>
                 ELSE IF Len(newValue) > Len(currentLine)
                 THEN [i \in 1..Len(added) |-> broadcast(added[i])]
                 ELSE << >>
    /\ last' = Did(IF startsWith(currentLine, Colon) THEN "cmdinput"
                   ELSE "input", {})
    /\ Commit(sessions, activeGroupId)
    /\ UNCHANGED << groups, activeSessionId, cliChecked, nextSessionId,
                    nextGroupId, broadcastMode, customGroupId, script >>
    /\ PanelIdle

\* click on the mode label: setBroadcastMode("all")
resetMode ==
    /\ broadcastMode # "all"
    /\ broadcastMode' = "all"
    /\ Commit(sessions, activeGroupId)
    /\ bcasts' = << >>
    /\ Quiet
    /\ script' = NoScript
    /\ UNCHANGED << groups, activeSessionId, cliChecked, nextSessionId,
                    nextGroupId, customGroupId, currentLine >>
    /\ PanelIdle

\* ------------------------------------------------------- specifications
AllKeys ==
    { KeyEvent(k, FALSE) : k \in { "Enter", "Backspace", "Delete", "Tab",
                                   "Escape", "ArrowUp", "ArrowDown",
                                   "ArrowRight", "ArrowLeft" } }
      \cup { KeyEvent(k, TRUE) : k \in { "c", "d", "z", "l", "u", "w", "a", "e" } }

AllLines == { LineL, LineA, LineGRouters, LineGNope, LineMRouters, LineMUngroup,
              LineSAll, LineSRouters, LineHelp, LineUnknown, LinePlain }

CreatedIds == 1..(nextSessionId - 1)

ListenerStep ==
    \E l \in ncListeners : ListenResolved(l)

OpenStep == \E id \in opening : OpenResolved(id) \/ OpenRejected(id)

CreateStep ==
    \/ addSession(Null)
    \/ \E n \in SessNames : addTelnetSession(n) \/ addSshSession(n)

SessionStep ==
    \E id \in Ids(sessions) :
        \/ toggleBroadcast(id)
        \/ setActiveSession(id)
        \/ \E n \in SessNames : updateSessionName(id, n)

GroupStep ==
    \/ \E n \in GroupNames : addGroup(n)
    \/ \E g \in Ids(groups) :
          \/ removeGroup(g)
          \/ setActiveGroup(g)
          \/ \E n \in GroupNames : renameGroup(g, n)
    \/ setActiveGroup(Null)

Next ==
    \/ CreateStep
    \/ \E l \in ncListeners, n \in SessNames : newConnection(l, n)
    \/ checkCliConnection(FALSE, NameR1)
    \/ \E n \in SessNames : checkCliConnection(TRUE, n)
    \/ ListenerStep
    \/ OpenStep
    \/ \E id \in CreatedIds : removeSession(id)
    \/ SessionStep
    \/ GroupStep
    \/ \E id \in Ids(sessions), g \in Ids(groups) \cup {Null} : moveToGroup(id, g)
    \/ \E e \in AllKeys : handleKeyDown(e)
    \/ \E v \in AllLines : handleInput(v)
    \/ resetMode
    \/ \E id \in Ids(sessions) : termData(id) \/ termResize(id)
    \/ \E id \in opened : backendLost(id)

Spec == Init /\ [][Next]_vars

KeyEnter == KeyEvent("Enter", FALSE)
KeyBackspace == KeyEvent("Backspace", FALSE)
KeyTab == KeyEvent("Tab", FALSE)

\* Broadcast routing over local, telnet and ssh sessions
NextBroadcast ==
    \/ addSession(Null)
    \/ addTelnetSession(NameR1)
    \/ addSshSession(NameR1)
    \/ \E id \in opening : OpenResolved(id)
    \/ \E id \in Ids(sessions) : toggleBroadcast(id)
    \/ addGroup(NameRouters)
    \/ setActiveGroup(Null)
    \/ \E v \in { LineGRouters, LineUnknown, LinePlain } : handleInput(v)
    \/ \E e \in { KeyEnter, KeyBackspace } : handleKeyDown(e)

SpecBroadcast == Init /\ [][NextBroadcast]_vars

\* ':l' mode under view switches, group and session operations
NextActiveGroup ==
    \/ addSession(Null)
    \/ \E id \in opening : OpenResolved(id)
    \/ \E id \in Ids(sessions) : toggleBroadcast(id) \/ removeSession(id)
    \/ addGroup(NameRouters)
    \/ \E g \in Ids(groups) : removeGroup(g) \/ setActiveGroup(g)
    \/ setActiveGroup(Null)
    \/ \E id \in Ids(sessions), g \in Ids(groups) \cup {Null} : moveToGroup(id, g)
    \/ handleInput(LineL)
    \/ handleKeyDown(KeyEnter)

SpecActiveGroup == Init /\ [][NextActiveGroup]_vars

\* ':m' to a group and ':g' over named sessions and groups
NextCommands ==
    \/ \E n \in SessNames : addTelnetSession(n)
    \/ \E id \in opening : OpenResolved(id)
    \/ \E id \in Ids(sessions) : toggleBroadcast(id)
    \/ \E n \in GroupNames : addGroup(n)
    \/ \E v \in { LineMRouters, LineGRouters } : handleInput(v)
    \/ handleKeyDown(KeyEnter)

SpecCommands == Init /\ [][NextCommands]_vars

\* ':m' without a group over named sessions in and out of a group
NextUngroup ==
    \/ \E n \in SessNames : addTelnetSession(n)
    \/ addGroup(NameRouters)
    \/ setActiveGroup(Null)
    \/ \E id \in Ids(sessions), g \in Ids(groups) : moveToGroup(id, g)
    \/ handleInput(LineMUngroup)
    \/ handleKeyDown(KeyEnter)

SpecUngroup == Init /\ [][NextUngroup]_vars

\* Group membership under session creation, events and group removal
NextGroups ==
    \/ addSession(Null)
    \/ addTelnetSession(NameR1)
    \/ \E l \in ncListeners : newConnection(l, NameR1)
    \/ ListenerStep
    \/ addGroup(NameRouters)
    \/ \E g \in Ids(groups) : removeGroup(g) \/ setActiveGroup(g)
    \/ setActiveGroup(Null)
    \/ \E id \in Ids(sessions), g \in Ids(groups) \cup {Null} : moveToGroup(id, g)

SpecGroups == InitLag /\ [][NextGroups]_vars

\* Group membership under group removal and moves, listen() answered at once
NextMembership ==
    \/ addSession(Null)
    \/ addTelnetSession(NameR1)
    \/ addGroup(NameRouters)
    \/ \E g \in Ids(groups) : removeGroup(g) \/ setActiveGroup(g)
    \/ setActiveGroup(Null)
    \/ \E id \in Ids(sessions), g \in Ids(groups) \cup {Null} : moveToGroup(id, g)

SpecMembership == Init /\ [][NextMembership]_vars

\* Session removal and the backend close calls
NextRemove ==
    \/ addSession(Null)
    \/ addTelnetSession(NameR1)
    \/ addSshSession(NameR1)
    \/ checkCliConnection(FALSE, NameR1)
    \/ checkCliConnection(TRUE, NameR1)
    \/ OpenStep
    \/ \E id \in CreatedIds : removeSession(id)
    \/ \E id \in Ids(sessions) : setActiveSession(id)

SpecRemove == Init /\ [][NextRemove]_vars

\* Session removal racing the asynchronous backend open
NextClose ==
    \/ addSession(Null)
    \/ addTelnetSession(NameR1)
    \/ OpenStep
    \/ \E id \in CreatedIds : removeSession(id)

SpecClose == Init /\ [][NextClose]_vars

\* Broadcast while the backend of some session rejects its calls
NextIsolation ==
    \/ addSession(Null)
    \/ addTelnetSession(NameR1)
    \/ addSshSession(NameR1)
    \/ \E id \in opening : OpenResolved(id)
    \/ \E id \in opened : backendLost(id)
    \/ \E id \in Ids(sessions) : toggleBroadcast(id)
    \/ handleInput(LinePlain)
    \/ handleKeyDown(KeyEnter)

SpecIsolation == Init /\ [][NextIsolation]_vars

\* Broadcast interleaved with session removal and broadcast-flag toggling
NextSnapshot ==
    \/ addSession(Null)
    \/ addTelnetSession(NameR1)
    \/ \E id \in opening : OpenResolved(id)
    \/ \E id \in CreatedIds : removeSession(id)
    \/ \E id \in Ids(sessions) : toggleBroadcast(id)
    \/ handleInput(LinePlain)
    \/ handleKeyDown(KeyEnter)

SpecSnapshot == Init /\ [][NextSnapshot]_vars

\* Sessions whose backend open was rejected, with broadcast and direct input
NextFailedOpen ==
    \/ addSession(Null)
    \/ addTelnetSession(NameR1)
    \/ checkCliConnection(FALSE, NameR1)
    \/ checkCliConnection(TRUE, NameR1)
    \/ OpenStep
    \/ \E id \in CreatedIds : removeSession(id)
    \/ \E id \in Ids(sessions) : toggleBroadcast(id)
    \/ \E id \in Ids(sessions) : termData(id) \/ termResize(id)
    \/ handleInput(LinePlain)
    \/ handleKeyDown(KeyEnter)

SpecFailedOpen == Init /\ [][NextFailedOpen]_vars

\* toggleLayoutMode (Ctrl+G): the grid and the tab layout render the panels
\* under different parents, so React unmounts every panel and mounts it anew;
\* the initialization effect of a registered session re-attaches or skips.
\* The layout itself is not kept.
toggleLayoutMode ==
    /\ panelLog' = [panelLog EXCEPT
                      !.remounted = @ \cup Mounted(sessions, activeGroupId)]
    /\ UNCHANGED << sessions, sessionsRef, groups, activeSessionId,
                    activeGroupId, cliChecked, ncListeners, ipcLag, applied,
                    nextSessionId, nextGroupId, initializedSessions, opening >>
    /\ PanelIdle
    /\ InputIdle
    /\ Quiet

\* Panels mounted, unmounted by viewing an empty group, and mounted again
NextMount ==
    \/ addSession(Null)
    \/ addTelnetSession(NameR1)
    \/ OpenStep
    \/ \E id \in Ids(sessions) : removeSession(id)
    \/ addGroup(NameRouters)
    \/ \E g \in Ids(groups) : setActiveGroup(g)
    \/ setActiveGroup(Null)
    \/ \E id \in Ids(sessions), g \in Ids(groups) \cup {Null} : moveToGroup(id, g)
    \/ toggleLayoutMode

SpecMount == Init /\ [][NextMount]_vars

\* ------------------------------------------------ useKeyboardShortcuts
\* a keydown event with its shift state, as the window listener sees it
ShortcutEvent(key, ctrlKey, shiftKey) ==
    [key |-> key, ctrlKey |-> ctrlKey, shiftKey |-> shiftKey]

ShiftKey(e) == "shiftKey" \in DOMAIN e /\ e.shiftKey

\* a branch of the shortcut handler that calls nothing of the provider
ShortcutIgnored ==
    /\ Commit(sessions, activeGroupId)
    /\ UNCHANGED << groups, activeSessionId, cliChecked, nextSessionId,
                    nextGroupId >>
    /\ PanelIdle
    /\ InputKept
    /\ Quiet

\* Ctrl+Tab / Ctrl+Shift+Tab: the index of the session to activate
TabIndex(shift) ==
    LET cur == FindIndex(sessions, activeSessionId) IN
    IF shift THEN (IF cur <= 1 THEN Len(sessions) ELSE cur - 1)
    ELSE (IF cur >= Len(sessions) THEN 1 ELSE cur + 1)

\* the window's keydown listener; isInputField is whether the event's target
\* is an INPUT or TEXTAREA element
shortcutKeyDown(e, isInputField) ==
    LET k == LowerChar(e.key)
        shift == ShiftKey(e)
    IN
    IF isInputField /\ e.key # "Tab" /\ ~e.ctrlKey THEN ShortcutIgnored
    ELSE IF e.ctrlKey /\ ~shift /\ k = "t" THEN addSession(Null)
    ELSE IF e.ctrlKey /\ shift /\ k = "t" THEN ShortcutIgnored
    ELSE IF e.ctrlKey /\ ~shift /\ k = "w"
         THEN IF activeSessionId # Null THEN removeSession(activeSessionId)
              ELSE ShortcutIgnored
    ELSE IF e.ctrlKey /\ e.key = "Tab"
         THEN IF Len(sessions) = 0 THEN ShortcutIgnored
              ELSE setActiveSession(sessions[TabIndex(shift)].id)
    ELSE IF e.ctrlKey /\ ~shift /\ k = "g" THEN toggleLayoutMode
    ELSE IF e.ctrlKey /\ ~shift /\ k = "b"
         THEN IF activeSessionId # Null THEN toggleBroadcast(activeSessionId)
              ELSE ShortcutIgnored
    ELSE IF e.ctrlKey /\ shift /\ k = "f" THEN ShortcutIgnored
    ELSE IF e.ctrlKey /\ ~shift /\ IsDigit(e.key) /\ e.key # "0"
         THEN IF parseInt(<< e.key >>) <= Len(sessions)
              THEN setActiveSession(sessions[parseInt(<< e.key >>)].id)
              ELSE ShortcutIgnored
    ELSE ShortcutIgnored

\* the broadcast input's onKeyDown has handled a key event that is still to
\* reach the window's listener: no handler stops its propagation
KeyPending == "e" \in DOMAIN last

\* keys pressed with the broadcast input focused
InputKeys ==
    { KeyEvent(k, TRUE) : k \in { "c", "d", "z", "l", "u", "w", "a", "e" } }
      \cup { KeyEvent("Backspace", FALSE), KeyEvent("x", FALSE) }

\* A key event in the focused broadcast input runs the input's handler and
\* then, in the same dispatch, the window's listener
NextShortcut ==
    \/ ~KeyPending /\ addSession(Null)
    \/ ~KeyPending /\ OpenStep
    \/ ~KeyPending /\ \E id \in Ids(sessions) : toggleBroadcast(id)
    \/ ~KeyPending /\ \E id \in Ids(sessions) : setActiveSession(id)
    \/ ~KeyPending /\ handleInput(LinePlain)
    \/ ~KeyPending /\ \E e \in InputKeys : handleKeyDown(e)
    \/ KeyPending /\ shortcutKeyDown(last.e, TRUE)

SpecShortcut == Init /\ [][NextShortcut]_vars

\* the switching shortcuts, pressed with a terminal focused
SwitchKeys ==
    { ShortcutEvent("Tab", TRUE, FALSE), ShortcutEvent("Tab", TRUE, TRUE),
      ShortcutEvent("1", TRUE, FALSE), ShortcutEvent("2", TRUE, FALSE) }

\* Group views, moves, removals and keyboard switching between terminals
NextSwitching ==
    \/ addSession(Null)
    \/ addGroup(NameRouters)
    \/ \E g \in Ids(groups) : setActiveGroup(g)
    \/ setActiveGroup(Null)
    \/ \E id \in Ids(sessions), g \in Ids(groups) \cup {Null} : moveToGroup(id, g)
    \/ \E id \in Ids(sessions) : removeSession(id)
    \/ \E e \in SwitchKeys : shortcutKeyDown(e, FALSE)

SpecSwitching == Init /\ [][NextSwitching]_vars

\* a step that changes nothing but the function application under study
OnlyApplied ==
    UNCHANGED << sessions, sessionsRef, groups, activeSessionId, activeGroupId,
                 cliChecked, ncListeners, ipcLag, nextSessionId, nextGroupId,
                 broadcastMode, customGroupId, currentLine, initializedSessions,
                 opening, closeCalls, opened, lost, bcasts, last, script,
                 panelLog >>

\* strings of at most n characters of the set C
StringsUpTo(C, n) == UNION { [1..k -> C] : k \in 0..n }

PatChars == { "R", "r", "-", "*", "?", "." }
NameChars == { "R", "r", "-", "1", "." }

PatternRq == << "R","-","?" >>
NameR22 == << "R","-","2","2" >>
NameRCID1 == << "R","-","C","I","D","1" >>
NameR10 == << "R","-","1","0" >>

GlobPatterns == StringsUpTo(PatChars, MaxPat) \cup { << "R","-","*" >>, PatternRq }
GlobNames == StringsUpTo(NameChars, MaxName)
                 \cup { NameR1, NameR22, NameRCID1, NameR10, NameSW1 }

\* ':m <pattern>': regex.test(s.name) for one pattern and one session name
InitGlob ==
    /\ InitState(FALSE)
    /\ \E p \in GlobPatterns, n \in GlobNames :
          applied = [fn |-> "glob", pattern |-> p, name |-> n,
                     done |-> FALSE, res |-> FALSE]

\* the regular expression built from a pattern applied to a name
ApplyGlob ==
    [applied EXCEPT !.done = TRUE,
                    !.res = RegexTest(regexPattern(applied.pattern), applied.name)]

testGlob ==
    /\ applied.fn = "glob" /\ ~applied.done
    /\ applied' = ApplyGlob
    /\ OnlyApplied

NextGlob == testGlob

SpecGlob == InitGlob /\ [][NextGlob]_vars

\* ':g' / ':group' over groups that come and go
NextGroupCmd ==
    \/ addSession(Null)
    \/ \E n \in GroupNames : addGroup(n)
    \/ \E g \in Ids(groups) : removeGroup(g)
    \/ \E v \in { LineGRouters, LineGLower, LineGroupRouters, LineGNope } :
          handleInput(v)
    \/ handleKeyDown(KeyEnter)

SpecGroupCmd == Init /\ [][NextGroupCmd]_vars

\* ':l' / ':local' with and without a viewed group
NextLocalCmd ==
    \/ addSession(Null)
    \/ addGroup(NameRouters)
    \/ \E g \in Ids(groups) : setActiveGroup(g)
    \/ setActiveGroup(Null)
    \/ \E v \in { LineL, LineLocal, LineGRouters } : handleInput(v)
    \/ handleKeyDown(KeyEnter)

SpecLocalCmd == Init /\ [][NextLocalCmd]_vars

\* ':s' / ':switch' over sessions in and out of groups
NextSwitchCmd ==
    \/ addSession(Null)
    \/ \E id \in Ids(sessions) : toggleBroadcast(id)
    \/ \E n \in GroupNames : addGroup(n)
    \/ \E v \in { LineSAll, LineSRouters, LineSwitchCore, LineSNope,
                   LineGRouters } : handleInput(v)
    \/ handleKeyDown(KeyEnter)

SpecSwitchCmd == Init /\ [][NextSwitchCmd]_vars

\* the keys of AllKeys and the control letters typed with Shift held
KeysTyped == AllKeys \cup { KeyEvent(k, TRUE) : k \in { "C", "W" } }

\* every handled key on plain lines, with and without broadcast targets
NextKeys ==
    \/ addSession(Null)
    \/ \E id \in opening : OpenResolved(id)
    \/ \E id \in Ids(sessions) : toggleBroadcast(id)
    \/ \E v \in { LinePlain, LineL } : handleInput(v)
    \/ \E e \in KeysTyped : handleKeyDown(e)

SpecKeys == Init /\ [][NextKeys]_vars

\* a colour the device itself sends, unlike every colour of ANSI
OpenRed == << Esc, "[", "3", "1", "m" >>

WordShow == << "s","h","o","w" >>
WordErrDisabled == << "e","r","r","-","d","i","s","a","b","l","e","d" >>

Pieces == { OpenRed, ANSI.reset, WordShow, WordErrDisabled, << " " >> }

\* the texts made of at most n pieces
RECURSIVE TextsUpTo(_)
TextsUpTo(n) ==
    IF n = 0 THEN { << >> }
    ELSE LET T == TextsUpTo(n - 1)
         IN T \cup { t \o q : t \in T, q \in Pieces }

\* "pty-output" / "telnet-output": highlightCiscoOutput on one chunk of output
InitHighlight ==
    /\ InitState(FALSE)
    /\ \E t \in TextsUpTo(MaxPieces) :
          applied = [fn |-> "highlight", text |-> t, done |-> FALSE, res |-> << >>]

ApplyHighlight ==
    [applied EXCEPT !.done = TRUE, !.res = highlightCiscoOutput(applied.text)]

testHighlight ==
    /\ applied.fn = "highlight" /\ ~applied.done
    /\ applied' = ApplyHighlight
    /\ OnlyApplied

NextHighlight == testHighlight

SpecHighlight == InitHighlight /\ [][NextHighlight]_vars

\* the bell character, written as one element like Esc
Bel == "BEL"

\* an xterm window-title sequence a host sends: ESC ] 0 ; adm@1.1.1.1 BEL
TitleOpen == << Esc, "]", "0", ";", "a", "d", "m", "@" >>
AddressLab == << "1", ".", "1", ".", "1", ".", "1" >>
TitleSequence == TitleOpen \o AddressLab \o << Bel >>

EscapePieces == { OpenRed, ANSI.reset, TitleOpen, AddressLab, << Bel >>,
                  WordShow, << " " >> }

\* the texts made of at most n of these pieces
RECURSIVE EscapeTextsUpTo(_)
EscapeTextsUpTo(n) ==
    IF n = 0 THEN { << >> }
    ELSE LET T == EscapeTextsUpTo(n - 1)
         IN T \cup { t \o q : t \in T, q \in EscapePieces }

\* "telnet-output" / "ssh-output": highlightCiscoOutput on one chunk that may
\* hold colour and window-title escape sequences
InitEscapes ==
    /\ InitState(FALSE)
    /\ \E t \in EscapeTextsUpTo(MaxPieces) :
          applied = [fn |-> "escapes", text |-> t, done |-> FALSE, res |-> << >>]

testEscapes ==
    /\ applied.fn = "escapes" /\ ~applied.done
    /\ applied' = ApplyHighlight
    /\ OnlyApplied

NextEscapes == testEscapes

SpecEscapes == InitEscapes /\ [][NextEscapes]_vars

\* octets, prefixes and surroundings of the dotted tokens examined
OctetValues == { 0, 25, 255, 256, 999 }
PrefixValues == { 8, 24 }
Before == { << >>, << " " >>, << "-" >> }
After == { << >>, << " " >>, << "." >> }

\* the decimal numbers of a list joined by dots
RECURSIVE Dotted(_)
Dotted(ns) ==
    IF Len(ns) = 1 THEN DecStr(ns[1])
    ELSE DecStr(ns[1]) \o << "." >> \o Dotted(Tail(ns))

\* highlightCiscoOutput on a chunk that holds one dotted token of three or
\* four numbers, with or without a /prefix
InitAddress ==
    /\ InitState(FALSE)
    /\ \E k \in {3, 4} : \E ns \in [1..k -> OctetValues] :
       \E x \in PrefixValues \cup {Null}, b \in Before, a \in After :
          LET token == Dotted(ns) \o (IF x = Null THEN << >>
                                      ELSE << "/" >> \o DecStr(x))
          IN applied = [fn |-> "address", octets |-> ns, token |-> token,
                        before |-> b, after |-> a, text |-> b \o token \o a,
                        done |-> FALSE, res |-> << >>]

testAddress ==
    /\ applied.fn = "address" /\ ~applied.done
    /\ applied' = ApplyHighlight
    /\ OnlyApplied

NextAddress == testAddress

SpecAddress == InitAddress /\ [][NextAddress]_vars

\* ------------------------------------------------------ ConnectDialog
\* null in a request or a stored profile: as a value and as a text
NullStr == "null"
NullText == << NullStr >>

\* what the user may have typed into the password and passphrase fields
Secrets == { << >>, << "p" >>, << "q", "2" >> }

HostR1 == << "r", "1" >>
HostPadded == << " ", "r", "1" >>
UserAdmin == << "a", "d" >>
KeyPathDefault == << "~", "/", "k" >>
ProfileLab == << "l", "a", "b" >>
ProfilePadded == << " ", "l", "a", "b", " " >>
PortTexts == { << >>, << "0" >>, << "2", "2" >>, << "7", "0", "0", "0", "0" >> }

\* profiles the store returned; it keeps no password field
StoredProfiles ==
    { [id |-> 1, name |-> ProfileLab, connection_type |-> "telnet",
       host |-> HostR1, port |-> 5000, username |-> NullText,
       auth_method |-> NullStr, key_path |-> NullText],
      [id |-> 2, name |-> ProfileLab, connection_type |-> "ssh",
       host |-> HostR1, port |-> 22, username |-> UserAdmin,
       auth_method |-> "publickey", key_path |-> NullText] }

\* the arguments of the request, with the password among them
ProfileArgs_WithPassword(d, portNum) ==
    [ name |-> trim(d.profileName), connectionType |-> d.mode,
      host |-> trim(d.host), port |-> portNum,
      username |-> IF d.mode = "ssh" THEN trim(d.username) ELSE NullText,
      authMethod |-> IF d.mode = "ssh" THEN d.authType ELSE NullStr,
      keyPath |-> IF d.mode = "ssh" /\ d.authType = "publickey"
                  THEN trim(d.keyPath) ELSE NullText,
      password |-> d.password ]

\* the arguments saveProfile passes to create_profile and update_profile
ProfileArgs(d, portNum) ==
    [ name |-> trim(d.profileName), connectionType |-> d.mode,
      host |-> trim(d.host), port |-> portNum,
      username |-> IF d.mode = "ssh" THEN trim(d.username) ELSE NullText,
      authMethod |-> IF d.mode = "ssh" THEN d.authType ELSE NullStr,
      keyPath |-> IF d.mode = "ssh" /\ d.authType = "publickey"
                  THEN trim(d.keyPath) ELSE NullText ]

\* saveProfile's two early returns: an empty name, a port that is no number
\* (parseInt of an empty field) or lies outside 1..65535
SaveRefused(d) ==
    IF trim(d.profileName) = << >> THEN "Please enter a profile name"
    ELSE IF d.port = << >> \/ parseInt(d.port) < 1 \/ parseInt(d.port) > 65535
         THEN "Please enter a valid port number"
    ELSE ""

\* the request saveProfile invokes, "none" when it returns early
SaveRequest(d) ==
    IF SaveRefused(d) # "" THEN [cmd |-> "none"]
    ELSE IF d.selectedProfileId # Null
         THEN [cmd |-> "update_profile", id |-> d.selectedProfileId,
               args |-> ProfileArgs(d, parseInt(d.port))]
    ELSE [cmd |-> "create_profile", args |-> ProfileArgs(d, parseInt(d.port))]

\* the dialog's form state; applied.at is the form a request was made from
InitProfile ==
    /\ InitState(FALSE)
    /\ \E m \in {"telnet", "ssh"}, a \in {"password", "publickey"},
          h \in {HostR1, HostPadded}, pt \in PortTexts,
          n \in {<< >>, ProfileLab, ProfilePadded}, sel \in {Null, 1} :
          LET d == [profileName |-> n, mode |-> m, host |-> h, port |-> pt,
                    deviceName |-> << >>, username |-> UserAdmin,
                    authType |-> a, keyPath |-> KeyPathDefault,
                    password |-> << >>, passphrase |-> << >>,
                    selectedProfileId |-> sel, error |-> "", view |-> "save"]
          IN applied = [fn |-> "profile", dialog |-> d, at |-> d,
                        res |-> [cmd |-> "none"]]

\* the password field's onChange
setPassword(p) ==
    /\ applied.fn = "profile"
    /\ applied' = [applied EXCEPT !.dialog.password = p]
    /\ OnlyApplied

\* the passphrase field's onChange
setPassphrase(p) ==
    /\ applied.fn = "profile"
    /\ applied' = [applied EXCEPT !.dialog.passphrase = p]
    /\ OnlyApplied

\* x || dflt for a text that may be null
OrText(x, dflt) == IF x = NullText \/ x = << >> THEN dflt ELSE x

loadProfile(profile) ==
    /\ applied.fn = "profile"
    /\ applied' = [applied EXCEPT !.dialog =
          [@ EXCEPT !.selectedProfileId = profile.id,
                    !.mode = profile.connection_type,
                    !.host = profile.host,
                    !.port = DecStr(profile.port),
                    !.deviceName = profile.name,
                    !.username = OrText(profile.username, << >>),
                    !.authType = IF profile.auth_method = NullStr
                                 THEN "password" ELSE profile.auth_method,
                    !.keyPath = OrText(profile.key_path, KeyPathDefault),
                    !.password = << >>,
                    !.passphrase = << >>,
                    !.error = ""]]
    /\ OnlyApplied

\* saveProfile; ok is whether the store's invoke resolved
saveProfile(ok) ==
    /\ applied.fn = "profile"
    /\ LET d == applied.dialog IN
       applied' =
         IF SaveRefused(d) # ""
         THEN [applied EXCEPT !.dialog.error = SaveRefused(d)]
         ELSE [applied EXCEPT
                 !.res = SaveRequest(d), !.at = d,
                 !.dialog = IF ok THEN [d EXCEPT !.view = "connect",
                                                 !.profileName = << >>,
                                                 !.error = ""]
                            ELSE [d EXCEPT !.error = "Failed to save profile"]]
    /\ OnlyApplied

NextProfile ==
    \/ \E p \in Secrets : setPassword(p)
    \/ \E p \in Secrets : setPassphrase(p)
    \/ \E profile \in StoredProfiles : loadProfile(profile)
    \/ \E ok \in BOOLEAN : saveProfile(ok)

SpecProfile == InitProfile /\ [][NextProfile]_vars

\* ------------------------------------------------------------- claims
\* the sessions a broadcast call wrote to
Targets(b) == { b.writes[i].to : i \in DOMAIN b.writes }

\* the number of writes of the broadcast key that a broadcast call sent to id
WritesTo(b, id) ==
    Cardinality({ i \in DOMAIN b.writes :
                    b.writes[i].to = id /\ b.writes[i].data = b.key })

\* the group filter of the current mode, where the mode defines one
PassesFilter(s) ==
    IF broadcastMode = "group" THEN s.groupId = activeGroupId
    ELSE IF broadcastMode = "custom" THEN s.groupId = customGroupId
    ELSE TRUE

\* glob semantics: '*' any run of characters, '?' exactly one character,
\* the whole name matched, letters compared without case
RECURSIVE GlobMatches(_, _)
GlobMatches(p, s) ==
    IF p = << >> THEN s = << >>
    ELSE IF Head(p) = "*"
         THEN GlobMatches(Tail(p), s) \/ (s # << >> /\ GlobMatches(p, Tail(s)))
    ELSE IF s = << >> THEN FALSE
    ELSE /\ (Head(p) = "?" \/ LowerChar(Head(p)) = LowerChar(Head(s)))
         /\ GlobMatches(Tail(p), Tail(s))

PatternR == << "R", "-", "*" >>

\* ids of the sessions whose display name matches R-*
MatchedR == { sessions[i].id : i \in { j \in DOMAIN sessions :
                  GlobMatches(PatternR, sessions[j].name) } }

\* C1: one broadcast of a keystroke issues exactly one write of it to every
\* broadcast-enabled session that passes the mode's group filter, whatever
\* its connection kind, and none to any other session. Stated for sessions
\* that hold a backend id and for modes whose filter names a group.
C1_OneWritePerTarget ==
    \A n \in DOMAIN bcasts : \A i \in DOMAIN sessions :
        LET s == sessions[i] IN
        (s.sessionId # Null /\ (broadcastMode = "group" => activeGroupId # Null))
        => WritesTo(bcasts[n], s.id)
             = (IF s.broadcastEnabled /\ PassesFilter(s) THEN 1 ELSE 0)

\* C2: Enter on a line that begins with ':' and matches no command consumes
\* the line and writes no byte to any session.
C2_UnmatchedCommandConsumed ==
    last.op = "unmatched"
    => /\ currentLine = << >>
       /\ \A n \in DOMAIN bcasts : bcasts[n].writes = << >>

\* C3: while the input line begins with ':', no key event and no edit of the
\* line results in a write to any session.
C3_NoWriteOnCommandLine ==
    last.op \in { "cmdkey", "cmdinput" }
    => \A n \in DOMAIN bcasts : bcasts[n].writes = << >>

C6_ExplicitGroupRecipients ==
    (broadcastMode = "custom" /\ customGroupId # Null)
    => \A n \in DOMAIN bcasts :
          Targets(bcasts[n])
            = { sessions[i].id : i \in { j \in DOMAIN sessions :
                    /\ sessions[j].broadcastEnabled
                    /\ sessions[j].sessionId # Null
                    /\ sessions[j].groupId = customGroupId } }

\* C7: in every reachable state each session's groupId is null or the id of
\* a group that exists.
C7_GroupIdExists ==
    \A i \in DOMAIN sessions :
        sessions[i].groupId = Null \/ sessions[i].groupId \in Ids(groups)

\* C8: removeGroup(g) sets groupId to null on every member of g, deletes no
\* session and leaves the groupId of every other session unchanged;
\* moveToGroup(id, g) leaves session id present as a member of g, so that
\* removeGroup(g) after it leaves id present with groupId null.
C8_RemoveGroupUngroups ==
    [][ /\ \A g \in GroupIds :
             removeGroup(g)
             => /\ Len(sessions') = Len(sessions)
                /\ \A i \in DOMAIN sessions :
                      /\ sessions'[i].id = sessions[i].id
                      /\ sessions'[i].groupId =
                            (IF sessions[i].groupId = g THEN Null
                             ELSE sessions[i].groupId)
        /\ \A id \in SessionIds, g \in GroupIds :
             (moveToGroup(id, g) /\ id \in Ids(sessions))
             => /\ Len(sessions') = Len(sessions)
                /\ \E i \in DOMAIN sessions' :
                      sessions'[i].id = id /\ sessions'[i].groupId = g
      ]_vars

\* C8 witness: a group with members was removed, its members are present
\* and ungrouped, and a session of another group kept its group
C8_Witness ==
    /\ last.op = "removeGroup"
    /\ last.ids # {}
    /\ last.ids \subseteq Ids(sessions)
    /\ \A i \in DOMAIN sessions :
          sessions[i].id \in last.ids => sessions[i].groupId = Null
    /\ \E i \in DOMAIN sessions : sessions[i].groupId \in Ids(groups)

\* C9: ':m <pattern>' with no group argument sets groupId to null on every
\* session whose display name matches the pattern, whatever its group was,
\* and leaves the groupId of every other session unchanged.
C9_MoveWithoutGroupUngroups ==
    [][ (last'.op = "ungroup" /\ currentLine = LineMUngroup)
        => /\ Len(sessions') = Len(sessions)
           /\ \A i \in DOMAIN sessions :
                 /\ sessions'[i].id = sessions[i].id
                 /\ sessions'[i].groupId =
                       (IF GlobMatches(PatternR, sessions[i].name) THEN Null
                        ELSE sessions[i].groupId)
      ]_vars

\* C9 witness: ':m R-*' ungrouped a session that was in a group while a
\* session with another name stayed in its group
C9_Witness ==
    /\ last.op = "ungroup"
    /\ last.ids # {}
    /\ \A i \in DOMAIN sessions :
          sessions[i].id \in last.ids => sessions[i].groupId = Null
    /\ \E i \in DOMAIN sessions :
          sessions[i].id \notin MatchedR /\ sessions[i].groupId # Null

\* C10: the backend close call is issued at most once per session, and
\* removeSession of an id that is not in the list changes no state and
\* issues no backend call.
C10_RemoveTwiceSafe ==
    [][ \A id \in SessionIds :
           /\ closeCalls[id] <= 1
           /\ closeCalls'[id] <= 1
           /\ (removeSession(id) /\ id \notin Ids(sessions))
              => UNCHANGED << sessions, sessionsRef, groups, activeSessionId,
                              activeGroupId, broadcastMode, customGroupId,
                              currentLine, initializedSessions, opening,
                              closeCalls >>
      ]_vars

\* C10 witness: removeSession was called again for a session whose backend
\* had been closed by its first removal
C10_Witness ==
    /\ last.op = "removeAbsent"
    /\ \E id \in last.ids : closeCalls[id] = 1

\* C11: every backend connection that was opened for a session has exactly
\* one matching close call once the session has been removed, whether the
\* removal came after or before the open completed.
C11_ClosedExactlyOnce ==
    \A id \in opened : id \notin Ids(sessions) => closeCalls[id] = 1

\* C12: within one broadcast call a write is issued to every matching
\* session, and the rejection of the write to one session does not prevent
\* the writes to the remaining matching sessions. Stated for calls in which a
\* write was rejected and for sessions that hold a backend id.
C12_RejectedWriteIsolated ==
    \A n \in DOMAIN bcasts :
        (\E k \in DOMAIN bcasts[n].writes : ~bcasts[n].writes[k].ok)
        => \A i \in DOMAIN sessions :
              ( /\ sessions[i].broadcastEnabled
                /\ sessions[i].sessionId # Null
                /\ PassesFilter(sessions[i]) )
              => sessions[i].id \in Targets(bcasts[n])

FailedOpen == initializedSessions \ (opening \cup opened)

\* C14: a session whose backend open failed stays in the session list until
\* removeSession is called for it, its backend id stays absent, and no
\* broadcast and no direct input issues a write or a resize for it.
C14_FailedOpenKept ==
    [][\A id \in FailedOpen \cap Ids(sessions) :
          /\ \/ \E i \in DOMAIN sessions' :
                   sessions'[i].id = id /\ sessions'[i].sessionId = Null
             \/ last'.op = "removeSession" /\ id \in last'.ids
          /\ \A n \in DOMAIN bcasts' : id \notin Targets(bcasts'[n])
          /\ last'.op \in {"termData", "termResize"} => id \notin last'.ids
      ]_vars

\* C15: the ':m' pattern matches a session name with glob semantics: '*'
\* matches any run of characters, '?' exactly one character, every other
\* character itself, over the whole name and without regard to case; R-*
\* matches R-1, R-22 and R-CID1 but not SW-1, and R-? matches R-1 but not R-10.
C15_GlobSemantics ==
    (applied.fn = "glob" /\ applied.done)
    => /\ applied.res = GlobMatches(applied.pattern, applied.name)
       /\ (applied.pattern = PatternR /\ applied.name \in {NameR1, NameR22, NameRCID1})
             => applied.res
       /\ (applied.pattern = PatternR /\ applied.name = NameSW1) => ~applied.res
       /\ (applied.pattern = PatternRq /\ applied.name = NameR1) => applied.res
       /\ (applied.pattern = PatternRq /\ applied.name = NameR10) => ~applied.res

\* R-* was tested against R-CID1 and matched
C15_Witness ==
    /\ applied.fn = "glob" /\ applied.done
    /\ applied.pattern = PatternR /\ applied.name = NameRCID1
    /\ applied.res

\* the line is the command word w, a blank and an argument
IsCommandLine(line, w) == startsWith(toLowerCase(trim(line)), w \o << " " >>)

\* the argument of a command line
ArgumentOf(line) == trim(AfterFirstSpace(line))

\* the step is Enter pressed on a line that begins with ':'
EnterOnCommandLine ==
    /\ startsWith(currentLine, Colon)
    /\ last'.op \in {"local", "all", "group", "move", "ungroup", "switch",
                     "help", "unmatched"}

\* the ids of the groups whose name equals name without regard to case
GroupsCalled(name) ==
    { groups[i].id : i \in { j \in DOMAIN groups :
          toLowerCase(groups[j].name) = toLowerCase(name) } }

\* C16: Enter on ':g <name>' or ':group <name>' sets the mode to ExplicitGroup
\* of a group whose name equals <name> without regard to case; when no group
\* has that name the broadcast mode and the explicit group id are unchanged.
C16_GroupCommand ==
    [][( /\ EnterOnCommandLine
         /\ \/ IsCommandLine(currentLine, << ":","g" >>)
            \/ IsCommandLine(currentLine, << ":","g","r","o","u","p" >>) )
       => IF GroupsCalled(ArgumentOf(currentLine)) # {}
          THEN /\ broadcastMode' = "custom"
               /\ customGroupId' \in GroupsCalled(ArgumentOf(currentLine))
          ELSE UNCHANGED << broadcastMode, customGroupId >>
      ]_vars

\* ':g Nope' was entered while the mode was ExplicitGroup and no group of
\* that name existed
C16_Witness ==
    /\ last.op = "unmatched"
    /\ broadcastMode = "custom"
    /\ groups # << >>

\* the line is exactly the command word w
IsCommandWord(line, w) == toLowerCase(trim(line)) = w

\* C17: Enter on ':l' or ':local' sets the broadcast mode to ActiveGroup when
\* a group is being viewed; when none is viewed it leaves the broadcast mode,
\* the explicit group id, the sessions and the groups unchanged.
C17_LocalCommand ==
    [][( /\ EnterOnCommandLine
         /\ \/ IsCommandWord(currentLine, << ":","l" >>)
            \/ IsCommandWord(currentLine, << ":","l","o","c","a","l" >>) )
       => IF activeGroupId # Null
          THEN broadcastMode' = "group"
          ELSE UNCHANGED << broadcastMode, customGroupId, sessions, groups >>
      ]_vars

\* ':l' was entered with no group viewed while the mode was ExplicitGroup
C17_Witness ==
    /\ last.op = "unmatched"
    /\ activeGroupId = Null
    /\ broadcastMode = "custom"
    /\ sessions # << >>

\* the positions of the groups whose name contains name without regard to case
GroupsHolding(name) ==
    { j \in DOMAIN groups : includes(toLowerCase(groups[j].name), toLowerCase(name)) }

\* C18: Enter on ':s <name>' or ':switch <name>' changes only which group is
\* viewed: ':s all' clears the view, otherwise the first group whose name
\* contains <name> becomes the viewed group; the broadcast mode, the explicit
\* group id and every session's groupId and broadcast flag are unchanged.
C18_SwitchCommand ==
    [][( /\ EnterOnCommandLine
         /\ \/ IsCommandLine(currentLine, << ":","s" >>)
            \/ IsCommandLine(currentLine, << ":","s","w","i","t","c","h" >>) )
       => LET name == ArgumentOf(currentLine) IN
          /\ UNCHANGED << broadcastMode, customGroupId >>
          /\ DOMAIN sessions' = DOMAIN sessions
          /\ \A i \in DOMAIN sessions :
                /\ sessions'[i].id = sessions[i].id
                /\ sessions'[i].groupId = sessions[i].groupId
                /\ sessions'[i].broadcastEnabled = sessions[i].broadcastEnabled
          /\ activeGroupId' =
                IF toLowerCase(name) = << "a","l","l" >> THEN Null
                ELSE IF GroupsHolding(name) # {}
                     THEN groups[CHOOSE j \in GroupsHolding(name) :
                                    \A k \in GroupsHolding(name) : j <= k].id
                ELSE activeGroupId
      ]_vars

\* ':s' made a group with a session in it the viewed group while the mode
\* was ExplicitGroup
C18_Witness ==
    /\ last.op = "switch"
    /\ activeGroupId # Null
    /\ broadcastMode = "custom"
    /\ \E i \in DOMAIN sessions : sessions[i].groupId = activeGroupId

\* the sequence the key table gives for a key press, "" for a key not in it
TableSequence(e) ==
    IF e.key = "Enter" THEN "0x0D"
    ELSE IF e.key = "Backspace" THEN "0x7F"
    ELSE IF e.key = "Tab" THEN "0x09"
    ELSE IF e.key = "Escape" THEN "0x1B"
    ELSE IF e.key = "ArrowUp" THEN "ESC[A"
    ELSE IF e.key = "ArrowDown" THEN "ESC[B"
    ELSE IF e.key = "ArrowRight" THEN "ESC[C"
    ELSE IF e.key = "ArrowLeft" THEN "ESC[D"
    ELSE IF ~e.ctrlKey THEN ""
    ELSE IF e.key \in {"c", "C"} THEN "0x03"
    ELSE IF e.key \in {"d", "D"} THEN "0x04"
    ELSE IF e.key \in {"z", "Z"} THEN "0x1A"
    ELSE IF e.key \in {"l", "L"} THEN "0x0C"
    ELSE IF e.key \in {"u", "U"} THEN "0x15"
    ELSE IF e.key \in {"w", "W"} THEN "0x17"
    ELSE IF e.key \in {"a", "A"} THEN "0x01"
    ELSE IF e.key \in {"e", "E"} THEN "0x05"
    ELSE ""

\* C19: with at least one broadcast target and a line that does not begin
\* with ':', a press of a key of the table hands exactly one sequence to
\* broadcast, the one the table gives for the key.
C19_KeyTable ==
    [][( /\ last'.op = "key"
         /\ enabledCount > 0
         /\ TableSequence(last'.e) # "" )
       => /\ Len(bcasts') = 1
          /\ bcasts'[1].key = TableSequence(last'.e)
      ]_vars

\* Ctrl+W was pressed on a plain line and its sequence was written to a
\* session
C19_Witness ==
    /\ last.op = "key"
    /\ last.e = KeyEvent("w", TRUE)
    /\ Len(bcasts) = 1
    /\ bcasts[1].key = "0x17"
    /\ bcasts[1].writes # << >>

\* the number of places at which part occurs in text
Occurrences(part, text) ==
    Cardinality({ p \in 1..(Len(text) - Len(part) + 1) :
                    SubSeq(text, p, p + Len(part) - 1) = part })

\* a recognised word between the device's colour escape and its reset
Wrapped(w) == OpenRed \o w \o ANSI.reset

\* C20: where the text holds a recognised word wrapped in a colour escape
\* sequence and its reset, the highlighted text holds it as it was: no escape
\* sequence is inserted between that opening escape and its reset.
C20_WrappedWordUntouched ==
    (applied.fn = "highlight" /\ applied.done)
    => \A w \in { WordShow, WordErrDisabled } :
          Occurrences(Wrapped(w), applied.res) = Occurrences(Wrapped(w), applied.text)

\* C21: a dotted-quad token, with or without a /prefix, is coloured as an IP
\* address if and only if each of its four octets is in 0..255; a token of
\* three numbers is not coloured.
C21_ValidQuadColoured ==
    (applied.fn = "address" /\ applied.done)
    => applied.res =
         IF Len(applied.octets) = 4
            /\ \A i \in 1..4 : applied.octets[i] \in 0..255
         THEN applied.before \o ANSI.ip \o applied.token \o ANSI.reset
                \o applied.after
         ELSE applied.text

\* 0.0.0.255/8 was coloured and so was highlighted as a whole
C21_Witness ==
    /\ applied.fn = "address" /\ applied.done
    /\ applied.octets = << 0, 0, 0, 255 >>
    /\ applied.token = << "0",".","0",".","0",".","2","5","5","/","8" >>
    /\ applied.res = ANSI.ip \o applied.token \o ANSI.reset

\* C22: the create_profile / update_profile request does not depend on the
\* password or passphrase entered: the request made from a form equals the
\* request every form that differs from it only in these two fields makes,
\* and its arguments hold neither field.
C22_RequestIgnoresSecrets ==
    (applied.fn = "profile" /\ applied.res.cmd # "none")
    => /\ \A p, q \in Secrets :
            SaveRequest([applied.at EXCEPT !.password = p, !.passphrase = q])
              = applied.res
       /\ DOMAIN applied.res.args \cap {"password", "passphrase"} = {}

\* a profile was created from a form that held a password and a passphrase
C22_Witness ==
    /\ applied.fn = "profile"
    /\ applied.res.cmd = "create_profile"
    /\ applied.at.password = << "p" >>
    /\ applied.at.passphrase = << "q", "2" >>
    /\ applied.at.mode = "ssh"

\* C23: whatever the sequence of mounts, unmounts and remounts of a session's
\* panel, the backend open call is made at most once for the session id.
C23_OpenAtMostOnce ==
    \A id \in SessionIds : panelLog.opens[id] <= 1

\* a listed session whose open call resolved and whose panel was mounted
\* again, while another session's panel was mounted again during its open
C23_Witness ==
    /\ \E id \in panelLog.remounted \cap opened :
          id \in Ids(sessions) /\ panelLog.opens[id] = 1
    /\ \E id \in panelLog.remounted \cap opening : panelLog.opens[id] = 1

\* C24: once removeSession has removed a session and no initialisation step
\* of it is pending, the panel's module-level state holds nothing for its
\* id: it is not in initializedSessions (nor, with it, in fitAddonMap), and
\* it has no backend id stored and no output listener subscribed, both of
\* which a resolved open leaves behind.
C24_RemovedSessionCleaned ==
    \A id \in SessionIds :
       (last.op = "removeSession" /\ id \in last.ids /\ id \notin opening)
       => id \notin initializedSessions \cup opened

\* the colours the highlighter inserts; the texts examined hold none of them
InsertedColours == { ANSI.ip, ANSI.command, ANSI.protocol, ANSI.statusUp,
                     ANSI.statusDown }

StartsAt(part, text, p) ==
    p + Len(part) - 1 <= Len(text) /\ SubSeq(text, p, p + Len(part) - 1) = part

\* text from position p on without the highlighter's colour codes and without
\* the reset that closes each of them; open is the number of codes not closed
RECURSIVE Uncoloured(_, _, _)
Uncoloured(text, p, open) ==
    IF p > Len(text) THEN << >>
    ELSE IF \E c \in InsertedColours : StartsAt(c, text, p)
         THEN LET c == CHOOSE x \in InsertedColours : StartsAt(x, text, p)
              IN Uncoloured(text, p + Len(c), open + 1)
    ELSE IF open > 0 /\ StartsAt(ANSI.reset, text, p)
         THEN Uncoloured(text, p + Len(ANSI.reset), open - 1)
    ELSE << text[p] >> \o Uncoloured(text, p + 1, open)

\* C25: highlighting only inserts colour and reset codes: without the codes
\* it inserted the result is the input, and every escape sequence of the
\* input (here the window-title sequence) is in the result as often as in
\* the input, unchanged.
C25_OnlyInsertsAndKeepsEscapes ==
    (applied.fn = "escapes" /\ applied.done)
    => /\ Uncoloured(applied.res, 1, 0) = applied.text
       /\ Occurrences(TitleSequence, applied.res)
            = Occurrences(TitleSequence, applied.text)

\* the control keys the input translates to a control byte
ControlByteKeys == { "c", "d", "z", "l", "u", "w", "a", "e" }

\* C26: a control key (Ctrl+C/D/Z/L/U/W/A/E) that the focused broadcast
\* input has just translated to a control byte and broadcast leaves the
\* session list as it is when the same event reaches the window's shortcut
\* handler; Ctrl+W removes no session.
C26_ControlKeyKeepsSessions ==
    [][ (KeyPending /\ last.e.ctrlKey /\ last.e.key \in ControlByteKeys
           /\ bcasts # << >>)
        => sessions' = sessions ]_vars

\* C27: whenever the broadcast mode is the one that names a group ("custom"),
\* the chosen group id is the id of a group that exists.
C27_ChosenGroupExists ==
    broadcastMode = "custom" => customGroupId \in Ids(groups)

\* C28: in every reachable state the sessions the broadcast bar counts as
\* targets are the sessions to which a broadcast in the same mode issues a
\* write.
C28_CountedAreWritten ==
    Ids(targetSessions) = Targets(broadcast("0x0D"))

\* C29: a step that creates a session (addSession, addTelnetSession, a
\* new-connection event, the startup check that finds a connection) keeps
\* every session that was in the list before it.
C29_CreationKeepsSessions ==
    [][ nextSessionId' > nextSessionId => Ids(sessions) \subseteq Ids(sessions') ]_vars

\* C30: whenever a group is viewed and has a member, the active session is a
\* member of the viewed group.
C30_ActiveInViewedGroup ==
    (activeGroupId # Null /\ InGroup(sessions, activeGroupId) # << >>)
    => activeSessionId \in Ids(InGroup(sessions, activeGroupId))

====
